---- MODULE Spec2Model ----
(***************************************************************************)
(* Model of the container codecs of mech3ax (src/src/mech3ax/parse):       *)
(* the ZArchive reader and writer, the FILETIME conversion, the reader     *)
(* tree, the interpreter scripts, the motion files, the mechlib materials, *)
(* the texture files, the gamez node table, the event scripts of the      *)
(* animation definitions, the animation file header and the Renamer of    *)
(* the archive extractor.                                                  *)
(*                                                                         *)
(* Bytes are the integers 0..255 and a byte string is a sequence of them.  *)
(* Offsets are 0-based as in the source; Sequences are 1-based, so byte    *)
(* `off` of a buffer b is b[off + 1].                                      *)
(***************************************************************************)
EXTENDS Integers, Sequences, FiniteSets, TLC

VARIABLES
    data,       \* the input buffer (BinReader.data, or the `data` argument)
    offset,     \* BinReader.offset
    prev,       \* BinReader.prev
    count,      \* the count read from the footer / the materials header
    entries,    \* the ArchiveEntry values yielded by read_archive so far
    root,       \* the tree returned by read_reader
    scripts,    \* the Script values yielded by read_interp
    motion,     \* the Motion document returned by read_motion
    materials,  \* the Material values yielded by read_materials so far
    names,      \* Renamer._names
    renames,    \* the names returned by the Renamer, in call order
    filetime,   \* the tick count given to filetime_to_datetime
    write_time, \* the Filetime value it returned
    filetime_out, \* the tick count datetime_to_filetime made of it
    textures, \* the DecodedTexture values yielded by read_textures so far
    do_stretch, \* the do_stretch parameter of read_textures
    call, \* the entry point called and the arguments given to it
    nodes, \* the Node values read_nodes has read so far
    slot, \* the loop variable i of read_nodes
    array_size, \* the array_size parameter of read_nodes
    anim_def, \* the AnimDef the script objects resolve their indices in
    sequences, \* the SeqDef values _read_sequence_definitions has read so far
    seqdef, \* the locals of the sequence being read: activation, seqdef_ptr, abs_end, script
    anim_names, \* the AnimName values _read_anim_header has read so far
    wrapped_meshes, \* the (i, mesh_offset, wrapped_mesh) entries read_meshes has read from the table
    meshes, \* the Mesh values read_meshes has read so far
    f,          \* the bytes written to the output file
    pc,         \* the position of the running function
    err         \* the exception that ended it ("" when none)

vars == <<meshes, wrapped_meshes, anim_names, seqdef, sequences, anim_def, array_size, slot, nodes, call, do_stretch, textures, data, offset, prev, count, entries, root, scripts, motion, materials,
          names, renames, filetime, write_time, filetime_out, f, pc, err>>

\* What the functions of one family leave alone: the state of the others.
notArchive == <<meshes, wrapped_meshes, anim_names, seqdef, sequences, anim_def, array_size, slot, nodes, call, do_stretch, textures, root, scripts, motion, materials, names, renames, filetime,
                write_time, filetime_out>>
notFiletime == <<meshes, wrapped_meshes, anim_names, seqdef, sequences, anim_def, array_size, slot, nodes, call, do_stretch, textures, data, offset, prev, count, entries, root, scripts, motion,
                 materials, names, renames, f>>
notReader == <<meshes, wrapped_meshes, anim_names, seqdef, sequences, anim_def, array_size, slot, nodes, call, do_stretch, textures, offset, prev, count, entries, scripts, motion, materials, names,
               renames, filetime, write_time, filetime_out>>
notInterp == <<meshes, wrapped_meshes, anim_names, seqdef, sequences, anim_def, array_size, slot, nodes, call, do_stretch, textures, offset, prev, count, entries, root, motion, materials, names,
               renames, filetime, write_time, filetime_out>>
notMotion == <<meshes, wrapped_meshes, anim_names, seqdef, sequences, anim_def, array_size, slot, nodes, call, do_stretch, textures, offset, prev, count, entries, root, scripts, materials, names,
               renames, filetime, write_time, filetime_out>>
notMaterials == <<meshes, wrapped_meshes, anim_names, seqdef, sequences, anim_def, array_size, slot, nodes, call, do_stretch, textures, entries, root, scripts, motion, names, renames, filetime,
                  write_time, filetime_out>>
notTextures == <<meshes, wrapped_meshes, anim_names, seqdef, sequences, anim_def, array_size, slot, nodes, prev, entries, root, scripts, motion, materials, names, renames,
                 filetime, write_time, filetime_out, f>>
notNodes == <<meshes, wrapped_meshes, anim_names, seqdef, sequences, anim_def, call, do_stretch, textures, count, entries, root, scripts, motion, materials,
              names, renames, filetime, write_time, filetime_out, f>>
notMeshes == <<anim_names, seqdef, sequences, anim_def, slot, nodes, do_stretch, textures, entries, root, scripts, motion, materials,
               names, renames, filetime, write_time, filetime_out, f>>
notModel == <<meshes, wrapped_meshes, anim_names, seqdef, sequences, anim_def, array_size, slot, nodes, call, do_stretch, textures, count, entries, scripts, motion, materials,
               names, renames, filetime, write_time, filetime_out>>
notIndex == <<meshes, wrapped_meshes, anim_names, seqdef, sequences, array_size, slot, nodes, do_stretch, textures, count, entries, scripts, motion, materials,
               names, renames, filetime, write_time, filetime_out, f>>
notPrereq == <<meshes, wrapped_meshes, anim_names, seqdef, sequences, anim_def, array_size, nodes, do_stretch, textures, entries, scripts, motion, materials,
               names, renames, filetime, write_time, filetime_out, f>>
notGamezMaterials == <<meshes, wrapped_meshes, anim_names, seqdef, sequences, anim_def, nodes, do_stretch, textures, entries, scripts, motion, root,
               names, renames, filetime, write_time, filetime_out, f>>
notColors == <<meshes, wrapped_meshes, anim_names, seqdef, sequences, anim_def, array_size, slot, nodes, call, do_stretch, prev, entries, root, scripts, motion, materials,
               names, renames, filetime, write_time, filetime_out>>
notScript == <<meshes, wrapped_meshes, anim_names, array_size, slot, nodes, call, do_stretch, textures, entries, root, scripts, motion, materials,
               names, renames, filetime, write_time, filetime_out, f>>
notRenamer == <<meshes, wrapped_meshes, anim_names, seqdef, sequences, anim_def, array_size, slot, nodes, call, do_stretch, textures, data, offset, prev, count, entries, root, scripts, motion,
                materials, filetime, write_time, filetime_out, f>>

(***************************************************************************)
(* Bounds of the model.                                                    *)
(***************************************************************************)
MaxEntries == 2     \* TOC entries of an input archive
MaxStart == 1       \* largest in-range `start` of an input TOC entry
MaxLength == 1      \* largest in-range `length` of an input TOC entry
MaxPayload == 2     \* bytes in front of the TOC of an input archive
MaxTickLo == 20     \* low limb of the tick counts given to filetime_to_datetime
MaxCalls == 4       \* calls of one Renamer
MaxChunks == 5      \* 4-byte chunks of an input reader file
MaxScripts == 2     \* scripts of an input interpreter file
MaxCommands == 2    \* commands of one input script
MaxParts == 2       \* parts of an input motion file
MaxFrames == 2      \* frames of every part of an input motion file
MaxMaterials == 2   \* materials of an input materials entry
MaxWidth == 2       \* children of a list of a tree given to write_reader
MaxTextures == 2    \* textures of an input texture file
MaxDim == 2         \* width and height of the last texture of an input file
MaxNodes == 3       \* nodes of an input node table
MaxSequences == 2   \* sequence definitions of an input animation definition
MaxRecords == 2     \* records of the script of the last input sequence definition
MaxAnimNames == 1   \* names of an input animation file
MaxMeshes == 2      \* meshes of an input mesh table

(***************************************************************************)
(* Byte strings and struct                                                 *)
(***************************************************************************)
Min(a, b) == IF a < b THEN a ELSE b

Zeros(n) == [k \in 1..n |-> 0]

\* bytes[start:end] for start, end >= 0: Python clamps a slice to the buffer.
Slice(b, start, end) ==
    LET s == Min(start, Len(b))
        e == Min(end, Len(b))
    IN  IF e <= s THEN <<>> ELSE SubSeq(b, s + 1, e)

RECURSIVE Concat(_)
Concat(ss) == IF ss = <<>> THEN <<>> ELSE Head(ss) \o Concat(Tail(ss))

\* struct "<I": a 32-bit unsigned little-endian integer.
UINT32_size == 4
UINT32_pack(n) ==
    <<n % 256, (n \div 256) % 256, (n \div 65536) % 256, (n \div 16777216) % 256>>
UINT32_at(b, off) ==
    b[off + 1] + 256 * b[off + 2] + 65536 * b[off + 3] + 16777216 * b[off + 4]

\* struct "<Ns": a byte field of width n, zero padded or cut on pack.
Bytes_pack(b, n) == IF Len(b) >= n THEN SubSeq(b, 1, n) ELSE b \o Zeros(n - Len(b))

\* Struct.unpack_from(buffer, offset): a negative offset counts from the end
\* of the buffer; the call raises struct.error unless `size` bytes follow.
\* The result is the 0-based position read, or -1 for struct.error.
unpack_from_pos(b, off, size) ==
    LET o == IF off < 0 THEN off + Len(b) ELSE off
    IN  IF o < 0 \/ Len(b) - o < size THEN -1 ELSE o

IsAscii(b) == \A k \in 1..Len(b) : b[k] < 128

\* bytes.find(b"\0"): the 0-based index of the first NUL, or -1.
FindNul(b) ==
    IF \E k \in 1..Len(b) : b[k] = 0
    THEN (CHOOSE k \in 1..Len(b) : b[k] = 0 /\ \A j \in 1..(k - 1) : b[j] # 0) - 1
    ELSE -1

\* The result of a call that may raise: the value, or the exception's class.
Ok(v) == [ok |-> TRUE, value |-> v, err |-> ""]
Raise(e) == [ok |-> FALSE, value |-> <<>>, err |-> e]

ascii_zterm_padded(buf) ==
    LET null_index == FindNul(buf)
    IN  IF null_index < 0 THEN Raise("ValueError")
        ELSE IF \E k \in (null_index + 1)..Len(buf) : buf[k] # 0 THEN Raise("ValueError")
        ELSE IF ~IsAscii(SubSeq(buf, 1, null_index)) THEN Raise("UnicodeDecodeError")
        ELSE Ok(SubSeq(buf, 1, null_index))

(***************************************************************************)
(* FILETIME (parse/archive.py)                                             *)
(*                                                                         *)
(* A tick count is a 64-bit integer, beyond the integers TLC computes      *)
(* with, so a count t is held as two limbs [hi, lo] with                   *)
(* t = hi * 10^17 + lo, and a number of microseconds m as [hi, lo] with    *)
(* m = hi * 10^16 + lo.  divmod(t, 10) is then ([hi, lo div 10], lo % 10)  *)
(* and m * 10 is [hi, lo * 10].  The low limbs of the model stay small.    *)
(***************************************************************************)
\* 2^64 - 1 = 184 * 10^17 + 46744073709551615: the high limb of a "Q" field.
MaxTickHi == 184
\* datetime.max - WINDOWS_EPOCH = 265046774399999999 us
\*   = 26 * 10^16 + 5046774399999999: WINDOWS_EPOCH + delta raises
\* OverflowError beyond it.
DatetimeMaxHi == 26

Tick(hi, lo) == [hi |-> hi, lo |-> lo]
WINDOWS_EPOCH == [kind |-> "datetime", hi |-> 0, lo |-> 0]

filetime_to_datetime(t) ==
    IF t = Tick(0, 0) THEN Ok(WINDOWS_EPOCH)
    ELSE LET micro == Tick(t.hi, t.lo \div 10)
             nano100 == t.lo % 10
         IN  IF nano100 # 0 THEN Ok([kind |-> "int", hi |-> t.hi, lo |-> t.lo])
             ELSE IF micro.hi > DatetimeMaxHi THEN Raise("OverflowError")
             ELSE Ok([kind |-> "datetime", hi |-> micro.hi, lo |-> micro.lo])

datetime_to_filetime(timestamp) ==
    IF timestamp.kind = "int" THEN Tick(timestamp.hi, timestamp.lo)
    ELSE IF timestamp = WINDOWS_EPOCH THEN Tick(0, 0)
    ELSE Tick(timestamp.hi, timestamp.lo * 10)

\* struct "<Q" for the tick counts below 2^31 that the archives of the model hold.
UINT64_pack(t) == UINT32_pack(t.lo) \o Zeros(4)
UINT64_at(b, off) == Tick(0, UINT32_at(b, off))

(***************************************************************************)
(* ZArchive (parse/archive.py)                                             *)
(***************************************************************************)
TOC_FOOTER_size == 8
TOC_ENTRY_size == 148
VERSION == 1

\* TOC_ENTRY = Struct("<2I 64s I 64s Q")
TOC_ENTRY_pack(start, length, name, flag, comment, ticks) ==
    UINT32_pack(start) \o UINT32_pack(length) \o Bytes_pack(name, 64)
        \o UINT32_pack(flag) \o Bytes_pack(comment, 64) \o UINT64_pack(ticks)

TOC_ENTRY_unpack(b, pos) ==
    [start |-> UINT32_at(b, pos),
     length |-> UINT32_at(b, pos + 4),
     raw_name |-> SubSeq(b, pos + 9, pos + 72),
     flag |-> UINT32_at(b, pos + 72),
     comment |-> SubSeq(b, pos + 77, pos + 140),
     filetime |-> UINT64_at(b, pos + 140)]

TOC_FOOTER_pack(version, n) == UINT32_pack(version) \o UINT32_pack(n)

ArchiveEntry(name, start, bytes, flag, comment, timestamp) ==
    [name |-> name, start |-> start, data |-> bytes, flag |-> flag,
     comment |-> comment, write_time |-> timestamp]

\* read_archive up to its loop: the footer is read from the end of the
\* buffer, the version is checked, and the cursor is set to the TOC.
read_archive_footer ==
    /\ pc = "read_archive"
    /\ LET start == Len(data) - TOC_FOOTER_size
           pos == unpack_from_pos(data, start, TOC_FOOTER_size)
       IN  IF pos < 0
           THEN /\ offset' = start
                /\ pc' = "failed" /\ err' = "struct.error"
                /\ UNCHANGED <<prev, count>>
           ELSE LET version == UINT32_at(data, pos)
                    n == UINT32_at(data, pos + 4)
                IN  /\ prev' = start
                    /\ count' = n
                    /\ IF version # VERSION
                       THEN /\ offset' = start + TOC_FOOTER_size
                            /\ pc' = "failed" /\ err' = "Mech3ArchiveError"
                       ELSE /\ offset' = Len(data) - TOC_FOOTER_size - TOC_ENTRY_size * n
                            /\ pc' = "read_entry" /\ err' = ""
    /\ UNCHANGED <<data, entries, f>>
    /\ UNCHANGED notArchive

\* One turn of the loop of read_archive: one TOC entry is read and its
\* payload sliced out of the buffer.  (read_archive_entry_backwards is
\* the loop of extract_archive in mech3ax/archive.py, which walks the table
\* of contents backwards from the footer.)
read_archive_entry_backwards ==
    /\ pc = "read_entry"
    /\ Len(entries) < count
    /\ LET at == Len(data) - TOC_FOOTER_size - TOC_ENTRY_size * (Len(entries) + 1)
           pos == unpack_from_pos(data, at, TOC_ENTRY_size)
       IN  IF pos < 0
           THEN /\ pc' = "failed" /\ err' = "struct.error"
                /\ UNCHANGED <<offset, prev, entries>>
           ELSE LET e == TOC_ENTRY_unpack(data, pos)
                    timestamp == filetime_to_datetime(e.filetime)
                    name == ascii_zterm_padded(e.raw_name)
                    end == e.start + e.length
                IN  /\ prev' = at
                    /\ offset' = at
                    /\ IF ~timestamp.ok
                       THEN /\ pc' = "failed" /\ err' = timestamp.err
                            /\ UNCHANGED entries
                       ELSE IF ~name.ok
                       THEN /\ pc' = "failed" /\ err' = name.err
                            /\ UNCHANGED entries
                       ELSE /\ entries' = Append(entries,
                                 ArchiveEntry(name.value, e.start,
                                     Slice(data, e.start, end), e.flag, e.comment,
                                     timestamp.value))
                            /\ UNCHANGED <<pc, err>>
    /\ UNCHANGED <<data, count, f>>
    /\ UNCHANGED notArchive
read_archive_entry ==
    /\ pc = "read_entry"
    /\ Len(entries) < count
    /\ LET pos == unpack_from_pos(data, offset, TOC_ENTRY_size)
       IN  IF pos < 0
           THEN /\ pc' = "failed" /\ err' = "struct.error"
                /\ UNCHANGED <<offset, prev, entries>>
           ELSE LET e == TOC_ENTRY_unpack(data, pos)
                    timestamp == filetime_to_datetime(e.filetime)
                    name == ascii_zterm_padded(e.raw_name)
                    end == e.start + e.length
                IN  /\ prev' = offset
                    /\ offset' = offset + TOC_ENTRY_size
                    /\ IF ~timestamp.ok
                       THEN /\ pc' = "failed" /\ err' = timestamp.err
                            /\ UNCHANGED entries
                       ELSE IF ~name.ok
                       THEN /\ pc' = "failed" /\ err' = name.err
                            /\ UNCHANGED entries
                       ELSE /\ entries' = Append(entries,
                                 ArchiveEntry(name.value, e.start,
                                     Slice(data, e.start, end), e.flag, e.comment,
                                     timestamp.value))
                            /\ UNCHANGED <<pc, err>>
    /\ UNCHANGED <<data, count, f>>
    /\ UNCHANGED notArchive

\* The loop of read_archive ends: every entry was yielded.
read_archive_end ==
    /\ pc = "read_entry"
    /\ Len(entries) = count
    /\ pc' = "write_archive"
    /\ UNCHANGED <<data, offset, prev, count, entries, f, err>>
    /\ UNCHANGED notArchive

\* The first loop of write_archive: the payloads are written and the TOC
\* entries packed, entry i first; the result is [offset, toc, f].
RECURSIVE write_archive_entries(_, _, _, _, _)
write_archive_entries(es, i, off, toc, out) ==
    IF i > Len(es) THEN [offset |-> off, toc |-> toc, f |-> out]
    ELSE LET entry == es[i]
             length == Len(entry.data)
             ticks == datetime_to_filetime(entry.write_time)
             entry_packed == TOC_ENTRY_pack(off, length, entry.name, entry.flag,
                                            entry.comment, ticks)
         IN  write_archive_entries(es, i + 1, off + length,
                                   Append(toc, entry_packed), out \o entry.data)

\* write_archive without `offset += length`: every TOC entry records start 0.
write_archive_stale_offset(es) ==
    Concat([i \in 1..Len(es) |-> es[i].data])
        \o Concat([i \in 1..Len(es) |->
                     TOC_ENTRY_pack(0, Len(es[i].data), es[i].name, es[i].flag,
                                    es[i].comment, datetime_to_filetime(es[i].write_time))])
        \o TOC_FOOTER_pack(VERSION, Len(es))

\* write_archive: the bytes written to f.
write_archive(es) ==
    LET w == write_archive_entries(es, 1, 0, <<>>, <<>>)
    IN  w.f \o Concat(w.toc) \o TOC_FOOTER_pack(VERSION, Len(w.toc))

write_archive_file ==
    /\ pc = "write_archive"
    /\ f' = write_archive(entries)
    /\ pc' = "archive_written"
    /\ UNCHANGED <<data, offset, prev, count, entries, err>>
    /\ UNCHANGED notArchive

\* Input archives: MaxPayload bytes at most, then TOC entries, then a footer.
\* The start and length of every entry are drawn from small sets; the last
\* entry also takes its name, flag, comment and filetime from a small set,
\* the entries before it are named X, flag 0, comment and filetime zero.
NameX == <<88>>
NameNonAscii == <<200, 88>>
Garbage == <<1, 0, 7>>
BigLength == (MaxEntries + 2) * TOC_ENTRY_size
TocSlices == (0..MaxStart) \X ((0..MaxLength) \cup {BigLength})
TocKinds == {<<NameX, 0, <<>>, 0>>, <<NameX, 1, <<>>, 10>>,
             <<NameNonAscii, 1, Garbage, 11>>}
TocInput_pack(slice, kind) ==
    TOC_ENTRY_pack(slice[1], slice[2], kind[1], kind[2], kind[3], Tick(0, kind[4]))
Payload(n) == [k \in 1..n |-> 64 + k]
\* Footers: the right one, one of another version, and (behind a payload)
\* one that counts an entry too many.
Footers(n, p) ==
    {TOC_FOOTER_pack(VERSION, n), TOC_FOOTER_pack(VERSION + 1, n)}
        \cup (IF p > 0 THEN {TOC_FOOTER_pack(VERSION, n + 1)} ELSE {})

Idle ==
    /\ offset = 0 /\ prev = 0 /\ count = 0
    /\ entries = <<>> /\ root = <<>> /\ scripts = <<>> /\ motion = <<>>
    /\ materials = <<>> /\ names = {} /\ renames = <<>>
    /\ filetime = Tick(0, 0) /\ write_time = <<>> /\ filetime_out = Tick(0, 0)
    /\ f = <<>> /\ err = ""
    /\ meshes = <<>>
    /\ wrapped_meshes = <<>>
    /\ anim_names = <<>>
    /\ seqdef = <<>>
    /\ sequences = <<>>
    /\ anim_def = <<>>
    /\ array_size = 0
    /\ slot = 0
    /\ nodes = <<>>
    /\ call = <<>>
    /\ do_stretch = FALSE
    /\ textures = <<>>

InitArchive ==
    /\ \E n \in 0..MaxEntries, p \in 0..MaxPayload, kind \in TocKinds :
         \E slices \in [1..n -> TocSlices], footer \in Footers(n, p) :
            data = Payload(p)
                    \o Concat([k \in 1..n |->
                          TocInput_pack(slices[k],
                                        IF k = n THEN kind ELSE <<NameX, 0, <<>>, 0>>)])
                    \o footer
    /\ pc = "read_archive"
    /\ Idle

NextArchive ==
    \/ read_archive_footer
    \/ read_archive_entry
    \/ read_archive_end
    \/ write_archive_file

SpecArchive == InitArchive /\ [][NextArchive]_vars

(***************************************************************************)
(* The FILETIME conversion on its own: a tick count is decoded and the     *)
(* result encoded again.                                                   *)
(***************************************************************************)
call_filetime_to_datetime ==
    /\ pc = "filetime_to_datetime"
    /\ LET r == filetime_to_datetime(filetime)
       IN  IF r.ok
           THEN write_time' = r.value /\ pc' = "datetime_to_filetime" /\ err' = ""
           ELSE write_time' = write_time /\ pc' = "failed" /\ err' = r.err
    /\ UNCHANGED <<filetime, filetime_out>>
    /\ UNCHANGED notFiletime

call_datetime_to_filetime ==
    /\ pc = "datetime_to_filetime"
    /\ filetime_out' = datetime_to_filetime(write_time)
    /\ pc' = "done"
    /\ UNCHANGED <<filetime, write_time, err>>
    /\ UNCHANGED notFiletime

InitFiletime ==
    /\ data = <<>> /\ offset = 0 /\ prev = 0 /\ count = 0
    /\ entries = <<>> /\ root = <<>> /\ scripts = <<>> /\ motion = <<>>
    /\ materials = <<>> /\ names = {} /\ renames = <<>>
    /\ filetime \in {Tick(hi, lo) : hi \in 0..MaxTickHi, lo \in 0..MaxTickLo}
    /\ write_time = <<>> /\ filetime_out = Tick(0, 0)
    /\ f = <<>> /\ err = ""
    /\ meshes = <<>>
    /\ wrapped_meshes = <<>>
    /\ anim_names = <<>>
    /\ seqdef = <<>>
    /\ sequences = <<>>
    /\ anim_def = <<>>
    /\ array_size = 0
    /\ slot = 0
    /\ nodes = <<>>
    /\ call = <<>>
    /\ do_stretch = FALSE
    /\ textures = <<>>
    /\ pc = "filetime_to_datetime"

NextFiletime == call_filetime_to_datetime \/ call_datetime_to_filetime

SpecFiletime == InitFiletime /\ [][NextFiletime]_vars

\* C8: every 64-bit tick count t is decoded, and encoding the result gives t
\* again: a multiple of 10 by way of a datetime, any other count by way of
\* the raw integer.
C8_FiletimeRoundTrip ==
    /\ pc # "failed"
    /\ pc = "done" =>
         /\ filetime_out = filetime
         /\ write_time.kind = (IF filetime.lo % 10 = 0 THEN "datetime" ELSE "int")

(***************************************************************************)
(* Renamer (convert/archive.py)                                            *)
(*                                                                         *)
(* A name is the sequence of its characters' code points.  The names of    *)
(* the model hold no path separator, so Path(name).name is the name.       *)
(***************************************************************************)
\* str.rfind("."): the 0-based index of the last ".", or -1.
RFindDot(name) ==
    IF \E k \in 1..Len(name) : name[k] = 46
    THEN (CHOOSE k \in 1..Len(name) :
            name[k] = 46 /\ \A j \in (k + 1)..Len(name) : name[j] # 46) - 1
    ELSE -1

\* pathlib: the suffix starts at the last "." unless that is the first or
\* the last character of the name.
HasSuffix(name) == 0 < RFindDot(name) /\ RFindDot(name) < Len(name) - 1
Path_stem(name) == IF HasSuffix(name) THEN SubSeq(name, 1, RFindDot(name)) ELSE name
Path_suffix(name) ==
    IF HasSuffix(name) THEN SubSeq(name, RFindDot(name) + 1, Len(name)) ELSE <<>>

\* str(i) for i >= 0
RECURSIVE Decimal(_)
Decimal(i) == IF i < 10 THEN <<48 + i>> ELSE Decimal(i \div 10) \o <<48 + (i % 10)>>

\* The loop of Renamer.__call__: f"{basename.stem}_{i}{basename.suffix}" is
\* tried for i = 1, 2, ... while the name is taken.
RECURSIVE Renamer_loop(_, _, _, _)
Renamer_loop(taken, basename, name, i) ==
    IF name \in taken
    THEN Renamer_loop(taken, basename,
                      Path_stem(basename) \o <<95>> \o Decimal(i) \o Path_suffix(basename),
                      i + 1)
    ELSE name

\* Renamer.__call__ with `if` for `while`: one attempt at a free name.
Renamer_one_attempt(taken, name) ==
    IF name \in taken
    THEN Path_stem(name) \o <<95>> \o Decimal(1) \o Path_suffix(name)
    ELSE name

\* Renamer.__call__: the name returned.
Renamer_rename(taken, name) == Renamer_loop(taken, name, name, 1)

Renamer_call ==
    /\ pc = "renamer"
    /\ Len(renames) < MaxCalls
    /\ \E name \in {<<88>>, <<88, 95, 49>>, <<88, 46, 119>>, <<88, 95, 49, 46, 119>>,
                    <<46, 119>>, <<88, 46>>} :
         LET rename == Renamer_rename(names, name)
         IN  /\ names' = names \cup {rename}
             /\ renames' = Append(renames, [name |-> name, rename |-> rename])
    /\ UNCHANGED <<pc, err>>
    /\ UNCHANGED notRenamer

InitRenamer ==
    /\ data = <<>> /\ offset = 0 /\ prev = 0 /\ count = 0
    /\ entries = <<>> /\ root = <<>> /\ scripts = <<>> /\ motion = <<>>
    /\ materials = <<>> /\ names = {} /\ renames = <<>>
    /\ filetime = Tick(0, 0) /\ write_time = <<>> /\ filetime_out = Tick(0, 0)
    /\ f = <<>> /\ err = ""
    /\ meshes = <<>>
    /\ wrapped_meshes = <<>>
    /\ anim_names = <<>>
    /\ seqdef = <<>>
    /\ sequences = <<>>
    /\ anim_def = <<>>
    /\ array_size = 0
    /\ slot = 0
    /\ nodes = <<>>
    /\ call = <<>>
    /\ do_stretch = FALSE
    /\ textures = <<>>
    /\ pc = "renamer"

NextRenamer == Renamer_call

SpecRenamer == InitRenamer /\ [][NextRenamer]_vars

\* C7: the names one Renamer returns are pairwise distinct; two entries
\* both named X get the renames X and X_1.
C7_UniqueRenames ==
    /\ \A i, j \in 1..Len(renames) : i # j => renames[i].rename # renames[j].rename
    /\ (Len(renames) >= 2 /\ renames[1].name = <<88>> /\ renames[2].name = <<88>>)
          => (renames[1].rename = <<88>> /\ renames[2].rename = <<88, 95, 49>>)

\* A name was given three times, once after a name equal to its first rename.
C7_Witness ==
    /\ Len(renames) = 4
    /\ renames[1].name = <<88>>
    /\ renames[2].name = <<88>>
    /\ renames[3].name = <<88, 95, 49>>
    /\ renames[4].name = <<88>>

(***************************************************************************)
(* Single-precision floats                                                 *)
(*                                                                         *)
(* A float read from a file is held as the four little-endian bytes of its *)
(* single-precision value.  Struct("<f").unpack widens the value to a      *)
(* double, which is exact, but turns a signalling NaN into the quiet NaN   *)
(* of the same payload; packing the double again is exact.                 *)
(***************************************************************************)
IsNaN(b) == b[4] % 128 = 127 /\ b[3] >= 128 /\ (b[3] % 128 # 0 \/ b[2] # 0 \/ b[1] # 0)
FLOAT_size == 4
FLOAT_unpack(b) ==
    IF IsNaN(b) /\ b[3] % 128 < 64 THEN <<b[1], b[2], b[3] + 64, b[4]>> ELSE b
FLOAT_at(b, off) == FLOAT_unpack(SubSeq(b, off + 1, off + 4))
FLOAT_pack(v) == v

(***************************************************************************)
(* Reader trees (parse/reader.py)                                          *)
(*                                                                         *)
(* A decoded node is [t, v]: an int, a float, a str (its ASCII code        *)
(* points), a list of nodes, or None.                                      *)
(***************************************************************************)
NodeType_Int == 1
NodeType_Float == 2
NodeType_Str == 3
NodeType_List == 4

Node(t, v) == [t |-> t, v |-> v]
\* What _read_node returns or raises, and the offset it leaves.
Read(v, off) == [ok |-> TRUE, value |-> v, offset |-> off, err |-> ""]
ReadFails(e, off) == [ok |-> FALSE, value |-> <<>>, offset |-> off, err |-> e]

RECURSIVE read_reader_node(_, _)
RECURSIVE read_reader_nodes(_, _, _)
\* _read_node of read_reader, from offset `off`.
read_reader_node(b, off) ==
    IF unpack_from_pos(b, off, UINT32_size) < 0 THEN ReadFails("struct.error", off)
    ELSE
    LET node_type == UINT32_at(b, off)
        o == off + UINT32_size
    IN  IF node_type \in {NodeType_Int, NodeType_Float, NodeType_Str, NodeType_List}
               /\ unpack_from_pos(b, o, UINT32_size) < 0
        THEN ReadFails("struct.error", o)
        ELSE IF node_type = NodeType_Int
        THEN Read(Node("int", UINT32_at(b, o)), o + UINT32_size)
        ELSE IF node_type = NodeType_Float
        THEN Read(Node("float", FLOAT_at(b, o)), o + FLOAT_size)
        ELSE IF node_type = NodeType_Str
        THEN LET n == UINT32_at(b, o)
                 value == Slice(b, o + UINT32_size, o + UINT32_size + n)
             IN  IF IsAscii(value)
                 THEN Read(Node("str", value), o + UINT32_size + n)
                 ELSE ReadFails("UnicodeDecodeError", o + UINT32_size)
        ELSE IF node_type = NodeType_List
        THEN LET n == UINT32_at(b, o) - 1
             IN  IF n = 0 THEN Read(Node("None", <<>>), o + UINT32_size)
                 ELSE LET values == read_reader_nodes(b, o + UINT32_size, n)
                      IN  IF values.ok
                          THEN Read(Node("list", values.value), values.offset)
                          ELSE values
        ELSE ReadFails("Mech3ParseError", o)

\* [_read_node() for _ in range(n)]: nothing is read when n <= 0.
read_reader_nodes(b, off, n) ==
    IF n <= 0 THEN Read(<<>>, off)
    ELSE LET first == read_reader_node(b, off)
         IN  IF ~first.ok THEN first
             ELSE LET rest == read_reader_nodes(b, first.offset, n - 1)
                  IN  IF ~rest.ok THEN rest
                      ELSE Read(<<first.value>> \o rest.value, rest.offset)

read_reader(b) ==
    LET r == read_reader_node(b, 0)
    IN  IF ~r.ok THEN r
        ELSE IF r.offset # Len(b) THEN ReadFails("Mech3ParseError", r.offset)
        ELSE r

\* What write_reader has written to f, and the exception it raised if any.
WriteFails(e, b) == [ok |-> FALSE, value |-> b, err |-> e]

RECURSIVE write_reader_node(_)
RECURSIVE write_reader_items(_, _, _)
\* _write_bytes and _write_list of write_reader
write_reader_bytes(node) ==
    Ok(UINT32_pack(NodeType_Str) \o UINT32_pack(Len(node)) \o node)

\* for item in node: _write_node(item), after `out` has been written
write_reader_items(node, i, out) ==
    IF i > Len(node) THEN Ok(out)
    ELSE LET w == write_reader_node(node[i])
         IN  IF ~w.ok THEN WriteFails(w.err, out \o w.value)
             ELSE write_reader_items(node, i + 1, out \o w.value)

\* _write_list with the count one smaller
write_reader_list_child_count(node) ==
    write_reader_items(node, 1, UINT32_pack(NodeType_List) \o UINT32_pack(Len(node)))

write_reader_list(node) ==
    write_reader_items(node, 1, UINT32_pack(NodeType_List) \o UINT32_pack(Len(node) + 1))

\* _write_node of write_reader: the bytes written for the node.  UINT32.pack
\* raises struct.error for a negative int, after the tag has been written.
write_reader_node(node) ==
    IF node.t = "int"
    THEN IF node.v < 0 THEN WriteFails("struct.error", UINT32_pack(NodeType_Int))
         ELSE Ok(UINT32_pack(NodeType_Int) \o UINT32_pack(node.v))
    ELSE IF node.t = "float" THEN Ok(UINT32_pack(NodeType_Float) \o FLOAT_pack(node.v))
    ELSE IF node.t = "str" THEN write_reader_bytes(node.v)
    ELSE IF node.t = "list" THEN write_reader_list(node.v)
    ELSE write_reader_list(<<>>)

write_reader(node) == write_reader_node(node)

call_read_reader ==
    /\ pc = "read_reader"
    /\ LET r == read_reader(data)
       IN  IF r.ok
           THEN root' = r.value /\ pc' = "write_reader" /\ err' = ""
           ELSE root' = root /\ pc' = "failed" /\ err' = r.err
    /\ UNCHANGED <<data, f>>
    /\ UNCHANGED notReader

call_write_reader ==
    /\ pc = "write_reader"
    /\ LET w == write_reader(root)
       IN  /\ f' = w.value
           /\ pc' = (IF w.ok THEN "reader_written" ELSE "write_failed")
           /\ err' = w.err
    /\ UNCHANGED <<data, root>>
    /\ UNCHANGED notReader

\* Input reader files: MaxChunks chunks of four bytes at most, each a small
\* integer, the text "hihi" or the float 0.5; or one float node holding
\* 1.0, -0.0, a quiet NaN or a signalling NaN.
ReaderChunks ==
    {UINT32_pack(k) : k \in 0..4} \cup {<<104, 105, 104, 105>>, <<0, 0, 0, 63>>}
ReaderFloats ==
    {<<0, 0, 128, 63>>, <<0, 0, 0, 128>>, <<0, 0, 192, 127>>, <<0, 0, 160, 127>>}

InitReader ==
    /\ \/ \E n \in 0..MaxChunks : \E chunks \in [1..n -> ReaderChunks] :
              data = Concat(chunks)
       \/ \E v \in ReaderFloats : data = UINT32_pack(NodeType_Float) \o v
    /\ pc = "read_reader"
    /\ Idle

NextReader == call_read_reader \/ call_write_reader

SpecReader == InitReader /\ [][NextReader]_vars

\* C2: every reader file that read_reader decodes is written back by
\* write_reader byte for byte.
C2_ReaderRoundTrip == pc = "reader_written" => f = data

(***************************************************************************)
(* write_reader on a tree that was not decoded from a file (the JSON to    *)
(* ZBD direction).                                                          *)
(***************************************************************************)
\* Trees given to write_reader: a leaf, or a list of at most MaxWidth
\* children that are leaves, except the last, which may be a list of
\* leaves; and the tree [1, 2.5, "hi", [42]].
ReaderLeaves ==
    <<Node("int", 1), Node("int", 42), Node("int", -1), Node("float", <<0, 0, 32, 64>>),
      Node("str", <<104, 105>>), Node("None", <<>>)>>
ReaderLeaf == 1..Len(ReaderLeaves)
S3Tree ==
    Node("list", <<Node("int", 1), Node("float", <<0, 0, 32, 64>>),
                   Node("str", <<104, 105>>), Node("list", <<Node("int", 42)>>)>>)

InitWriteReader ==
    /\ \/ \E leaf \in ReaderLeaf : root = ReaderLeaves[leaf]
       \/ root = S3Tree
       \/ \E n \in 0..MaxWidth : \E heads \in [1..(n - 1) -> ReaderLeaf] :
            LET first == [k \in 1..(n - 1) |-> ReaderLeaves[heads[k]]]
            IN  IF n = 0 THEN root = Node("list", <<>>)
                ELSE \/ \E last \in ReaderLeaf :
                          root = Node("list", Append(first, ReaderLeaves[last]))
                     \/ \E m \in 0..MaxWidth : \E inner \in [1..m -> ReaderLeaf] :
                          root = Node("list",
                                      Append(first,
                                             Node("list", [k \in 1..m |->
                                                             ReaderLeaves[inner[k]]])))
    /\ pc = "write_reader"
    /\ data = <<>> /\ offset = 0 /\ prev = 0 /\ count = 0
    /\ entries = <<>> /\ scripts = <<>> /\ motion = <<>>
    /\ materials = <<>> /\ names = {} /\ renames = <<>>
    /\ filetime = Tick(0, 0) /\ write_time = <<>> /\ filetime_out = Tick(0, 0)
    /\ f = <<>> /\ err = ""
    /\ meshes = <<>>
    /\ wrapped_meshes = <<>>
    /\ anim_names = <<>>
    /\ seqdef = <<>>
    /\ sequences = <<>>
    /\ anim_def = <<>>
    /\ array_size = 0
    /\ slot = 0
    /\ nodes = <<>>
    /\ call = <<>>
    /\ do_stretch = FALSE
    /\ textures = <<>>

NextWriteReader == call_write_reader

SpecWriteReader == InitWriteReader /\ [][NextWriteReader]_vars

\* Where the encoding of `node` that starts at byte `off` of b ends, if every
\* list in it starts with tag 4 and a count of its children plus one;
\* -1 otherwise.
RECURSIVE ListPrefixEnd(_, _, _)
RECURSIVE ListPrefixItems(_, _, _, _)
ListPrefixEnd(node, b, off) ==
    IF off < 0 \/ off + 2 * UINT32_size > Len(b) THEN -1
    ELSE IF node.t \in {"int", "float"} THEN off + 2 * UINT32_size
    ELSE IF node.t = "str" THEN off + 2 * UINT32_size + Len(node.v)
    ELSE IF UINT32_at(b, off) = 4 /\ UINT32_at(b, off + UINT32_size) = Len(node.v) + 1
    THEN ListPrefixItems(node.v, 1, b, off + 2 * UINT32_size)
    ELSE -1
ListPrefixItems(items, i, b, off) ==
    IF i > Len(items) \/ off < 0 THEN off
    ELSE ListPrefixItems(items, i + 1, b, ListPrefixEnd(items[i], b, off))

\* Python's == on two trees
RECURSIVE SameNode(_, _)
SameNode(a, b) ==
    /\ a.t = b.t
    /\ IF a.t = "list"
       THEN /\ Len(a.v) = Len(b.v)
            /\ \A k \in 1..Len(a.v) : SameNode(a.v[k], b.v[k])
       ELSE a.v = b.v

S3Bytes ==
    <<4, 0, 0, 0, 5, 0, 0, 0, 1, 0, 0, 0, 1, 0, 0, 0,
      2, 0, 0, 0, 0, 0, 32, 64, 3, 0, 0, 0, 2, 0, 0, 0, 104, 105,
      4, 0, 0, 0, 2, 0, 0, 0, 1, 0, 0, 0, 42, 0, 0, 0>>

\* C11 (as amended): every list node written by write_reader, at every
\* depth, carries a length prefix of its number of children plus one, and
\* [1, 2.5, "hi", [42]] is written, with prefixes 5 and 2, as the 50 bytes
\* of scenario S3.
C11_ListPrefix ==
    pc = "reader_written" =>
        /\ ListPrefixEnd(root, f, 0) = Len(f)
        /\ SameNode(root, S3Tree) => (f = S3Bytes /\ Len(f) = 50)

\* C11 (as stated): the same, with the bytes of scenario S3 being 56.
C11_ListPrefix56 ==
    pc = "reader_written" =>
        /\ ListPrefixEnd(root, f, 0) = Len(f)
        /\ SameNode(root, S3Tree) => (f = S3Bytes /\ Len(f) = 56)

C11_Witness == pc = "reader_written" /\ SameNode(root, S3Tree)

\* struct "<i": the two's complement bytes of a signed 32-bit integer
INT32_pack(n) ==
    <<n % 256, (n \div 256) % 256, (n \div 65536) % 256, (n \div 16777216) % 256>>

\* C12: an int node is encoded as a signed 32-bit little-endian integer, for
\* every value of that range: write_reader succeeds and writes tag 1 and the
\* two's complement bytes of the value.
C12_SignedInts ==
    (root # <<>> /\ root.t = "int" /\ pc # "write_reader") =>
        /\ pc = "reader_written"
        /\ f = UINT32_pack(NodeType_Int) \o INT32_pack(root.v)

(***************************************************************************)
(* Interpreter scripts (parse/interp.py)                                   *)
(***************************************************************************)
INTERP_HEADER_size == 12
INTERP_ENTRY_size == 128
SIGNATURE == 144118041      \* 0x08971119
INTERP_VERSION == 7

\* ascii_zterm of mech3ax/utils.py: the bytes in front of the first NUL;
\* `binary` is unbound when there is none.
ascii_zterm(bytestr) ==
    LET null_index == FindNul(bytestr)
    IN  IF null_index < 0 THEN Raise("UnboundLocalError")
        ELSE IF ~IsAscii(SubSeq(bytestr, 1, null_index)) THEN Raise("UnicodeDecodeError")
        ELSE Ok(SubSeq(bytestr, 1, null_index))

\* datetime.fromtimestamp(last_modified, timezone.utc) and
\* int(timestamp.timestamp()): whole seconds since 1970, held as such.
datetime_fromtimestamp(seconds) == [kind |-> "datetime", unix |-> seconds]
datetime_timestamp(timestamp) == timestamp.unix

CountOf(c, str) == Cardinality({k \in 1..Len(str) : str[k] = c})

\* str.rstrip("\0"): every trailing NUL is removed.
RECURSIVE RStripNul(_)
RStripNul(str) ==
    IF str # <<>> /\ str[Len(str)] = 0 THEN RStripNul(SubSeq(str, 1, Len(str) - 1))
    ELSE str

\* str.replace(a, b) for single characters
Replace(str, a, b) == [k \in 1..Len(str) |-> IF str[k] = a THEN b ELSE str[k]]

\* _read_script_lines: the loop, with the lines read so far.
RECURSIVE read_script_lines(_, _, _)
read_script_lines(b, off, lines) ==
    IF unpack_from_pos(b, off, UINT32_size) < 0 THEN ReadFails("struct.error", off)
    ELSE
    LET size == UINT32_at(b, off)
        o == off + UINT32_size
    IN  IF size = 0 THEN Read(lines, o)
        ELSE IF unpack_from_pos(b, o, UINT32_size) < 0 THEN ReadFails("struct.error", o)
        ELSE
        LET arg_count == UINT32_at(b, o)
            at == o + UINT32_size
            command == Slice(b, at, at + size)
        IN  IF ~IsAscii(command) THEN ReadFails("UnicodeDecodeError", at)
            ELSE IF arg_count # CountOf(0, command) THEN ReadFails("Mech3ParseError", at)
            ELSE IF command = <<>> THEN ReadFails("IndexError", at)
            ELSE IF command[Len(command)] # 0 THEN ReadFails("Mech3ParseError", at)
            ELSE IF CountOf(32, command) > 0 THEN ReadFails("Mech3ParseError", at)
            ELSE read_script_lines(b, at + size,
                                   Append(lines, Replace(RStripNul(command), 0, 32)))

\* The first loop of read_interp: n entries from offset `off`.
RECURSIVE read_interp_entries(_, _, _, _)
read_interp_entries(b, off, n, script_info) ==
    IF n = 0 THEN Read(script_info, off)
    ELSE IF unpack_from_pos(b, off, INTERP_ENTRY_size) < 0
    THEN ReadFails("struct.error", off)
    ELSE LET name == ascii_zterm(SubSeq(b, off + 1, off + 120))
             last_modified == UINT32_at(b, off + 120)
             start == UINT32_at(b, off + 124)
         IN  IF ~name.ok THEN ReadFails(name.err, off + INTERP_ENTRY_size)
             ELSE read_interp_entries(b, off + INTERP_ENTRY_size, n - 1,
                      Append(script_info,
                             [name |-> name.value,
                              timestamp |-> datetime_fromtimestamp(last_modified),
                              start |-> start]))

\* The second loop of read_interp: the scripts from entry i on.
RECURSIVE read_interp_scripts(_, _, _, _, _)
read_interp_scripts(b, off, script_info, i, done) ==
    IF i > Len(script_info) THEN Read(done, off)
    ELSE IF script_info[i].start # off THEN ReadFails("Mech3ParseError", off)
    ELSE LET r == read_script_lines(b, off, <<>>)
         IN  IF ~r.ok THEN r
             ELSE read_interp_scripts(b, r.offset, script_info, i + 1,
                      Append(done, [name |-> script_info[i].name,
                                    timestamp |-> script_info[i].timestamp,
                                    lines |-> r.value]))

\* read_interp: every Script it yields, or the exception it raises.
read_interp(b) ==
    IF unpack_from_pos(b, 0, INTERP_HEADER_size) < 0 THEN ReadFails("struct.error", 0)
    ELSE IF UINT32_at(b, 0) # SIGNATURE THEN ReadFails("Mech3ParseError", 0)
    ELSE IF UINT32_at(b, 4) # INTERP_VERSION THEN ReadFails("Mech3ParseError", 4)
    ELSE LET n == UINT32_at(b, 8)
             info == read_interp_entries(b, INTERP_HEADER_size, n, <<>>)
         IN  IF ~info.ok THEN info
             ELSE LET r == read_interp_scripts(b, info.offset, info.value, 1, <<>>)
                  IN  IF ~r.ok THEN r
                      \* `name` is unbound when there was no entry
                      ELSE IF n = 0 THEN ReadFails("UnboundLocalError", r.offset)
                      ELSE IF r.offset # Len(b) THEN ReadFails("Mech3ParseError", r.offset)
                      ELSE r

\* The commands of one script as write_interp encodes them.
write_interp_command(command) ==
    UINT32_pack(Len(command) + 1) \o UINT32_pack(CountOf(32, command) + 1)
        \o Replace(command, 32, 0) \o <<0>>
write_interp_script(script) ==
    Concat([k \in 1..Len(script.lines) |-> write_interp_command(script.lines[k])])
        \o UINT32_pack(0)

\* The offset write_interp records for script i.
RECURSIVE write_interp_offset(_, _)
write_interp_offset(encoded, i) ==
    IF i <= 1 THEN INTERP_HEADER_size + INTERP_ENTRY_size * Len(encoded)
    ELSE write_interp_offset(encoded, i - 1) + Len(encoded[i - 1])

write_interp(ss) ==
    LET encoded == [k \in 1..Len(ss) |-> write_interp_script(ss[k])]
    IN  UINT32_pack(SIGNATURE) \o UINT32_pack(INTERP_VERSION) \o UINT32_pack(Len(ss))
        \o Concat([k \in 1..Len(ss) |->
                     Bytes_pack(ss[k].name, 120)
                         \o UINT32_pack(datetime_timestamp(ss[k].timestamp))
                         \o UINT32_pack(write_interp_offset(encoded, k))])
        \o Concat(encoded)

call_read_interp ==
    /\ pc = "read_interp"
    /\ LET r == read_interp(data)
       IN  IF r.ok
           THEN scripts' = r.value /\ pc' = "write_interp" /\ err' = ""
           ELSE scripts' = scripts /\ pc' = "failed" /\ err' = r.err
    /\ UNCHANGED <<data, f>>
    /\ UNCHANGED notInterp

call_write_interp ==
    /\ pc = "write_interp"
    /\ f' = write_interp(scripts)
    /\ pc' = "interp_written"
    /\ UNCHANGED <<data, scripts, err>>
    /\ UNCHANGED notInterp

\* Input interpreter files: a header of version 7 or 8, one entry per script
\* with the offset of its body, the bodies, and at most one byte after them.
\* The last script's commands vary; the scripts before it are plain.
\* A command record is size, arg_count and bytes; the bytes are drawn from
\* "a\0", "a\0b\0", "a\0\0", "\0", "a \0" and "a", the arg_count is the
\* number of NULs or one more.
CommandInputs ==
    {UINT32_pack(Len(c)) \o UINT32_pack(CountOf(0, c)) \o c
        : c \in {<<97, 0>>, <<97, 0, 98, 0>>, <<97, 0, 0>>, <<0>>, <<97, 32, 0>>, <<97>>}}
      \cup {UINT32_pack(2) \o UINT32_pack(2) \o <<97, 0>>}
ScriptInputs ==
    UNION {{Concat(cmds) \o UINT32_pack(0) : cmds \in [1..n -> CommandInputs]}
           : n \in 0..MaxCommands}
\* The body of every script but the last: the one command "a\0".
ScriptPlain == UINT32_pack(2) \o UINT32_pack(1) \o <<97, 0>> \o UINT32_pack(0)
RECURSIVE BodyStart(_, _)
BodyStart(bodies, i) ==
    IF i <= 1 THEN INTERP_HEADER_size + INTERP_ENTRY_size * Len(bodies)
    ELSE BodyStart(bodies, i - 1) + Len(bodies[i - 1])

InitInterp ==
    /\ \E n \in 0..MaxScripts, version \in {INTERP_VERSION, INTERP_VERSION + 1},
          tail \in {<<>>, <<0>>} :
         \E last \in IF n = 0 THEN {<<>>} ELSE ScriptInputs :
          LET bodies == [k \in 1..n |-> IF k = n THEN last ELSE ScriptPlain]
          IN
            data = UINT32_pack(SIGNATURE) \o UINT32_pack(version) \o UINT32_pack(n)
                    \o Concat([k \in 1..n |->
                                 Bytes_pack(<<115, 48 + k>>, 120) \o UINT32_pack(5 * k)
                                     \o UINT32_pack(BodyStart(bodies, k))])
                    \o Concat(bodies) \o tail
    /\ pc = "read_interp"
    /\ Idle

NextInterp == call_read_interp \/ call_write_interp

SpecInterp == InitInterp /\ [][NextInterp]_vars

\* C3: every interpreter file that read_interp decodes is written back by
\* write_interp byte for byte, size, arg_count and NUL-separated bytes of
\* every command included.
C3_InterpRoundTrip == pc = "interp_written" => f = data

(***************************************************************************)
(* Motions (parse/motion.py)                                               *)
(*                                                                         *)
(* A float is held as the four bytes of its single-precision encoding.     *)
(***************************************************************************)
MOTION_size == 24
VECTOR_size == 12
QUATERNION_size == 16
MOTION_VERSION == 4
FLAG_TRANSLATION_ROTATION == 12

PlusOne == <<0, 0, 128, 63>>        \*  1.0
MinusOne == <<0, 0, 128, 191>>      \* -1.0
IsZero(v) == v[1] = 0 /\ v[2] = 0 /\ v[3] = 0 /\ v[4] % 128 = 0
\* Python's == on two floats: NaN equals nothing, the two zeros are equal.
FloatEq(v, w) == ~IsNaN(v) /\ ~IsNaN(w) /\ (v = w \/ (IsZero(v) /\ IsZero(w)))
\* loop_time <= 0.0: false for NaN
FloatLeZero(v) == ~IsNaN(v) /\ (v[4] >= 128 \/ IsZero(v))

\* Struct "<Nf".unpack_from: n floats from offset `off`.
FLOATS_at(b, off, n) == [k \in 1..n |-> FLOAT_at(b, off + FLOAT_size * (k - 1))]
FLOATS_pack(vs) == Concat([k \in 1..Len(vs) |-> FLOAT_pack(vs[k])])

\* parts[part_name] = values on a dict that keeps insertion order: a key that
\* is present keeps its place and takes the new value.
DictSet(d, key, value) ==
    IF \E k \in 1..Len(d) : d[k].name = key
    THEN [k \in 1..Len(d) |-> IF d[k].name = key THEN [name |-> key, values |-> value]
                                                  ELSE d[k]]
    ELSE Append(d, [name |-> key, values |-> value])

\* The loop of read_motion over the parts, with the dict built so far.
RECURSIVE read_motion_parts(_, _, _, _, _)
read_motion_parts(b, off, n, frame_count, parts) ==
    IF n = 0 THEN Read(parts, off)
    ELSE IF unpack_from_pos(b, off, UINT32_size) < 0 THEN ReadFails("struct.error", off)
    ELSE
    LET length == UINT32_at(b, off)
        at == off + UINT32_size
        part_name == Slice(b, at, at + length)
        o == at + length
    IN  IF ~IsAscii(part_name) THEN ReadFails("UnicodeDecodeError", at)
        ELSE IF unpack_from_pos(b, o, UINT32_size) < 0 THEN ReadFails("struct.error", o)
        ELSE IF UINT32_at(b, o) # FLAG_TRANSLATION_ROTATION
        THEN ReadFails("Mech3ParseError", o)
        ELSE
        LET t == o + UINT32_size
            r == t + VECTOR_size * frame_count
            end == r + QUATERNION_size * frame_count
        IN  IF Len(b) < end THEN ReadFails("struct.error", t)
            ELSE read_motion_parts(b, end, n - 1, frame_count,
                     DictSet(parts, part_name,
                             [k \in 1..frame_count |->
                                <<FLOATS_at(b, t + VECTOR_size * (k - 1), 3),
                                  FLOATS_at(b, r + QUATERNION_size * (k - 1), 4)>>]))

read_motion(b) ==
    IF unpack_from_pos(b, 0, MOTION_size) < 0 THEN ReadFails("struct.error", 0)
    ELSE
    LET version == UINT32_at(b, 0)
        loop_time == FLOAT_at(b, 4)
        frame_count == UINT32_at(b, 8) + 1
        part_count == UINT32_at(b, 12)
        minus_one == FLOAT_at(b, 16)
        plus_one == FLOAT_at(b, 20)
    IN  IF version # MOTION_VERSION THEN ReadFails("Mech3ParseError", 0)
        ELSE IF ~FloatEq(MinusOne, minus_one) THEN ReadFails("Mech3ParseError", 16)
        ELSE IF ~FloatEq(PlusOne, plus_one) THEN ReadFails("Mech3ParseError", 20)
        ELSE IF FloatLeZero(loop_time) THEN ReadFails("Mech3ParseError", 4)
        ELSE LET r == read_motion_parts(b, MOTION_size, part_count, frame_count, <<>>)
             IN  IF ~r.ok THEN r
                 ELSE IF r.offset # Len(b) THEN ReadFails("Mech3ParseError", r.offset)
                 ELSE Read([frames |-> frame_count, loop_time |-> loop_time,
                            parts |-> r.value], r.offset)

\* one part written without its rotations
write_motion_part_translations(part) ==
    UINT32_pack(Len(part.name)) \o part.name \o UINT32_pack(FLAG_TRANSLATION_ROTATION)
        \o Concat([k \in 1..Len(part.values) |-> FLOATS_pack(part.values[k][1])])

write_motion_part(part) ==
    UINT32_pack(Len(part.name)) \o part.name \o UINT32_pack(FLAG_TRANSLATION_ROTATION)
        \o Concat([k \in 1..Len(part.values) |-> FLOATS_pack(part.values[k][1])])
        \o Concat([k \in 1..Len(part.values) |-> FLOATS_pack(part.values[k][2])])

write_motion(mo) ==
    UINT32_pack(MOTION_VERSION) \o FLOAT_pack(mo.loop_time) \o UINT32_pack(mo.frames - 1)
        \o UINT32_pack(Len(mo.parts)) \o FLOAT_pack(MinusOne) \o FLOAT_pack(PlusOne)
        \o Concat([k \in 1..Len(mo.parts) |-> write_motion_part(mo.parts[k])])

call_read_motion ==
    /\ pc = "read_motion"
    /\ LET r == read_motion(data)
       IN  IF r.ok
           THEN motion' = r.value /\ pc' = "write_motion" /\ err' = ""
           ELSE motion' = motion /\ pc' = "failed" /\ err' = r.err
    /\ UNCHANGED <<data, f>>
    /\ UNCHANGED notMotion

call_write_motion ==
    /\ pc = "write_motion"
    /\ f' = write_motion(motion)
    /\ pc' = "motion_written"
    /\ UNCHANGED <<data, motion, err>>
    /\ UNCHANGED notMotion

\* Input motion files: a header, n parts of `frames` frames each, and at most
\* one byte after them.  Part k < n is named "a<k>"; the last part is named
\* "a1", "b" or "a", carries flag 12 or 8, and all its floats are 0.5 or all 2.0.
LoopTimes == {PlusOne, <<0, 0, 0, 0>>, <<0, 0, 160, 127>>, <<0, 0, 192, 127>>}
PartInput_pack(name, flag, v, frames) ==
    UINT32_pack(Len(name)) \o name \o UINT32_pack(flag)
        \o Concat([k \in 1..(3 * frames) |-> v]) \o Concat([k \in 1..(4 * frames) |-> v])

InitMotion ==
    /\ \E n \in 0..MaxParts, frames \in 1..MaxFrames, loop_time \in LoopTimes,
          version \in {MOTION_VERSION, MOTION_VERSION + 1},
          signs \in {<<MinusOne, PlusOne>>, <<PlusOne, MinusOne>>},
          extra \in 0..1, tail \in {<<>>, <<0>>} :
         \E name \in {<<97, 49>>, <<98>>, <<97>>}, flag \in {FLAG_TRANSLATION_ROTATION, 8},
            v \in {<<0, 0, 0, 63>>, <<0, 0, 0, 64>>} :
            data = UINT32_pack(version) \o loop_time \o UINT32_pack(frames - 1)
                    \o UINT32_pack(n + extra) \o signs[1] \o signs[2]
                    \o Concat([k \in 1..n |->
                                 IF k = n THEN PartInput_pack(name, flag, v, frames)
                                 ELSE PartInput_pack(<<97, 48 + k>>,
                                                     FLAG_TRANSLATION_ROTATION,
                                                     <<0, 0, 0, 63>>, frames)])
                    \o tail
    /\ pc = "read_motion"
    /\ Idle

NextMotion == call_read_motion \/ call_write_motion

SpecMotion == InitMotion /\ [][NextMotion]_vars

\* C4: every motion file that read_motion decodes is written back by
\* write_motion byte for byte.
C4_MotionRoundTrip == pc = "motion_written" => f = data

\* The sum over the parts of 4 + len(name) + 4 + 28 * n
RECURSIVE MotionPartsSize(_, _)
MotionPartsSize(parts, n) ==
    IF parts = <<>> THEN 0
    ELSE 4 + Len(Head(parts).name) + 4 + 28 * n + MotionPartsSize(Tail(parts), n)

\* C13: for a motion document of n frames and p parts, write_motion emits
\* exactly 24 + the sum over its parts of (4 + len(name) + 4 + 28 * n) bytes;
\* with n = 2 and the one part "a" that is 89 bytes.
C13_MotionSize ==
    pc = "motion_written" =>
        /\ Len(f) = 24 + MotionPartsSize(motion.parts, motion.frames)
        /\ (motion.frames = 2 /\ Len(motion.parts) = 1 /\ motion.parts[1].name = <<97>>)
              => Len(f) = 89

C13_Witness ==
    /\ pc = "motion_written"
    /\ motion.frames = 2
    /\ Len(motion.parts) = 1
    /\ motion.parts[1].name = <<97>>
    /\ Len(f) = 89

(***************************************************************************)
(* Mechlib materials (parse/mechlib.py), read through a BinReader          *)
(* (parse/utils.py): `data` is the reader's buffer, `offset` and `prev`    *)
(* are its cursor and the start of its last read.                          *)
(***************************************************************************)
MATERIAL_INFO_size == 40
UINT16_at(b, off) == b[off + 1] + 256 * b[off + 2]
UINT16_pack(n) == <<n % 256, n \div 256>>

Float_0 == <<0, 0, 0, 0>>           \* 0.0
Float_half == <<0, 0, 0, 63>>       \* 0.5
Float_255 == <<0, 0, 127, 67>>      \* 255.0

None == [some |-> FALSE, str |-> <<>>]
Some(str) == [some |-> TRUE, str |-> str]
\* bool(name): None and "" are false
Truthy(name) == name.some /\ name.str # <<>>

Material(name, flag, unk, rgb, red, green, blue, pointer) ==
    [name |-> name, flag |-> flag, unk |-> unk, rgb |-> rgb, red |-> red,
     green |-> green, blue |-> blue, pointer |-> pointer]

\* reader.read(MATERIAL_INFO) at position p
MATERIAL_INFO_unpack(b, p) ==
    [unk00 |-> b[p + 1], flag |-> b[p + 2], rgb |-> UINT16_at(b, p + 2),
     red |-> FLOAT_at(b, p + 4), green |-> FLOAT_at(b, p + 8),
     blue |-> FLOAT_at(b, p + 12), pointer |-> UINT32_at(b, p + 16),
     unk20 |-> FLOAT_at(b, p + 20), unk24 |-> FLOAT_at(b, p + 24),
     unk28 |-> FLOAT_at(b, p + 28), unk32 |-> UINT32_at(b, p + 32),
     cycle_ptr |-> UINT32_at(b, p + 36)]

MATERIAL_INFO_pack(unk, flag, rgb, red, green, blue, pointer) ==
    <<unk, flag>> \o UINT16_pack(rgb) \o FLOAT_pack(red) \o FLOAT_pack(green)
        \o FLOAT_pack(blue) \o UINT32_pack(pointer) \o FLOAT_pack(Float_0)
        \o FLOAT_pack(Float_half) \o FLOAT_pack(Float_half) \o UINT32_pack(0)
        \o UINT32_pack(0)

\* The assertions of read_materials on one MATERIAL_INFO record.
material_info_valid(i) ==
    /\ i.unk00 \in {0, 255}
    /\ FloatEq(Float_0, i.unk20)
    /\ FloatEq(Float_half, i.unk24)
    /\ FloatEq(Float_half, i.unk28)
    /\ i.unk32 = 0
    /\ i.cycle_ptr = 0
    /\ IF i.flag % 2 = 1
       THEN /\ i.pointer # 0
            /\ i.rgb = 32767
            /\ FloatEq(Float_255, i.red)
            /\ FloatEq(Float_255, i.green)
            /\ FloatEq(Float_255, i.blue)
       ELSE /\ i.pointer = 0
            /\ i.rgb = 0

\* count = reader.read_u32()
read_materials_count ==
    /\ pc = "read_materials"
    /\ IF unpack_from_pos(data, offset, UINT32_size) < 0
       THEN /\ pc' = "failed" /\ err' = "struct.error"
            /\ UNCHANGED <<offset, prev, count>>
       ELSE /\ count' = UINT32_at(data, offset)
            /\ prev' = offset
            /\ offset' = offset + UINT32_size
            /\ pc' = "read_material"
            /\ err' = ""
    /\ UNCHANGED <<data, materials, f>>
    /\ UNCHANGED notMaterials

\* One turn of the loop of read_materials.
read_material ==
    /\ pc = "read_material"
    /\ Len(materials) < count
    /\ IF unpack_from_pos(data, offset, MATERIAL_INFO_size) < 0
       THEN /\ pc' = "failed" /\ err' = "struct.error"
            /\ UNCHANGED <<offset, prev, materials>>
       ELSE
       LET i == MATERIAL_INFO_unpack(data, offset)
           at == offset + MATERIAL_INFO_size
       IN  IF ~material_info_valid(i)
           THEN /\ pc' = "failed" /\ err' = "Mech3ParseError"
                /\ prev' = offset /\ offset' = at
                /\ UNCHANGED materials
           ELSE IF i.flag % 2 = 0
           THEN /\ materials' = Append(materials,
                                    Material(None, i.flag, i.unk00, i.rgb, i.red,
                                             i.green, i.blue, i.pointer))
                /\ prev' = offset /\ offset' = at
                /\ pc' = "read_material" /\ err' = ""
           \* name = reader.read_string()
           ELSE IF unpack_from_pos(data, at, UINT32_size) < 0
           THEN /\ pc' = "failed" /\ err' = "struct.error"
                /\ prev' = offset /\ offset' = at
                /\ UNCHANGED materials
           ELSE
           LET length == UINT32_at(data, at)
               from == at + UINT32_size
               str == Slice(data, from, from + length)
           IN  /\ prev' = from /\ offset' = from + length
               /\ IF IsAscii(str)
                  THEN /\ materials' = Append(materials,
                                           Material(Some(str), i.flag, i.unk00, i.rgb,
                                                    i.red, i.green, i.blue, i.pointer))
                       /\ pc' = "read_material" /\ err' = ""
                  ELSE /\ pc' = "failed" /\ err' = "UnicodeDecodeError"
                       /\ UNCHANGED materials
    /\ UNCHANGED <<data, count, f>>
    /\ UNCHANGED notMaterials

\* assert_eq("materials end", len(reader), reader.offset, reader.offset)
read_materials_end ==
    /\ pc = "read_material"
    /\ Len(materials) = count
    /\ IF Len(data) = offset
       THEN pc' = "write_materials" /\ err' = ""
       ELSE pc' = "failed" /\ err' = "Mech3ParseError"
    /\ UNCHANGED <<data, offset, prev, count, materials, f>>
    /\ UNCHANGED notMaterials

\* write_materials: what it has written, or the exception it raises, from
\* material i on.
RECURSIVE write_materials_from(_, _, _)
write_materials_from(ms, i, out) ==
    IF i > Len(ms) THEN Ok(out)
    ELSE
    LET material == ms[i]
        textured == material.flag % 2 = 1
    IN  IF textured /\ material.pointer = 0 THEN Raise("Mech3MaterialError")
        ELSE IF textured /\ ~Truthy(material.name) THEN Raise("Mech3MaterialError")
        ELSE IF ~textured /\ material.pointer # 0 THEN Raise("Mech3ParseError")
        ELSE write_materials_from(ms, i + 1,
                 out \o MATERIAL_INFO_pack(material.unk, material.flag, material.rgb,
                                           material.red, material.green, material.blue,
                                           material.pointer)
                     \o (IF Truthy(material.name)
                         THEN UINT32_pack(Len(material.name.str)) \o material.name.str
                         ELSE <<>>))

write_materials(ms) == write_materials_from(ms, 1, UINT32_pack(Len(ms)))

write_materials_file ==
    /\ pc = "write_materials"
    /\ LET w == write_materials(materials)
       IN  IF w.ok
           THEN f' = w.value /\ pc' = "materials_written" /\ err' = ""
           ELSE f' = f /\ pc' = "write_failed" /\ err' = w.err
    /\ UNCHANGED <<data, offset, prev, count, materials>>
    /\ UNCHANGED notMaterials

\* Input materials entries: a count, n materials, nothing after them.  The
\* materials before the last are textured and named "t".  The last one draws
\* its fields from small sets; what follows its record is nothing, a string
\* of length 0, or the string "t".
MaterialPlain ==
    MATERIAL_INFO_pack(255, 17, 32767, Float_255, Float_255, Float_255, 1)
        \o UINT32_pack(1) \o <<116>>
MaterialInput_pack(unk00, flag, rgb, colour, pointer, unk20) ==
    <<unk00, flag>> \o UINT16_pack(rgb) \o colour \o colour \o colour
        \o UINT32_pack(pointer) \o unk20 \o Float_half \o Float_half
        \o UINT32_pack(0) \o UINT32_pack(0)

InitMaterials ==
    /\ \E n \in 0..MaxMaterials, extra \in 0..1 :
         \E unk00 \in {0, 255, 1}, flag \in {17, 16}, rgb \in {32767, 0},
            colour \in {Float_255, Float_half}, pointer \in 0..1,
            unk20 \in {Float_0, <<0, 0, 0, 128>>, Float_half},
            str \in {<<>>, UINT32_pack(0), UINT32_pack(1) \o <<116>>} :
            data = UINT32_pack(n + extra)
                    \o Concat([k \in 1..n |->
                                 IF k = n
                                 THEN MaterialInput_pack(unk00, flag, rgb, colour,
                                                         pointer, unk20) \o str
                                 ELSE MaterialPlain])
    /\ pc = "read_materials"
    /\ Idle

NextMaterials ==
    \/ read_materials_count
    \/ read_material
    \/ read_materials_end
    \/ write_materials_file

SpecMaterials == InitMaterials /\ [][NextMaterials]_vars

\* C5: for every materials entry that read_materials decodes, write_materials
\* on the decoded list succeeds and emits the entry byte for byte.
C5_MaterialsRoundTrip ==
    /\ pc # "write_failed"
    /\ pc = "materials_written" => f = data

(***************************************************************************)
(* Claims about the archive                                                *)
(***************************************************************************)
\* The payload bytes in front of entry i: sum of len(e_j.data) for j < i.
RECURSIVE PayloadBefore(_, _)
PayloadBefore(es, i) ==
    IF i <= 1 THEN 0 ELSE PayloadBefore(es, i - 1) + Len(es[i - 1].data)

\* The position in the input of the TOC entry i (1-based) and its fields.
TocPos(i) == Len(data) - TOC_FOOTER_size - TOC_ENTRY_size * count + TOC_ENTRY_size * (i - 1)
TocField(i) == TOC_ENTRY_unpack(data, TocPos(i))

\* C1: every archive that read_archive decodes is written back by
\* write_archive byte for byte.
C1_ArchiveRoundTrip == pc = "archive_written" => f = data

\* C6: write_archive writes the payloads in order from byte 0 without gaps,
\* then one 148-byte TOC entry per payload in the same order, then the
\* footer (version 1, count n); TOC entry i records as start the sum of the
\* lengths of the payloads before it and as length the length of its own.
C6_RepackLayout ==
    pc = "archive_written" =>
        LET n == Len(entries)
            total == PayloadBefore(entries, n + 1)
        IN  /\ Len(f) = total + TOC_ENTRY_size * n + TOC_FOOTER_size
            /\ \A i \in 1..n :
                 LET start == PayloadBefore(entries, i)
                     length == Len(entries[i].data)
                     toc == total + TOC_ENTRY_size * (i - 1)
                 IN  /\ Slice(f, start, start + length) = entries[i].data
                     /\ UINT32_at(f, toc) = start
                     /\ UINT32_at(f, toc + 4) = length
            /\ UINT32_at(f, Len(f) - 8) = VERSION
            /\ UINT32_at(f, Len(f) - 4) = n

\* Two payloads, both non-empty, were written.
C6_Witness ==
    /\ pc = "archive_written"
    /\ Len(entries) = 2
    /\ Len(entries[1].data) > 0
    /\ Len(entries[2].data) > 0

\* C9: a TOC entry whose start + length lies beyond the input buffer makes
\* read_archive fail with Mech3ArchiveError (so no such entry is yielded).
C9_OutOfBoundsSliceFails ==
    (\E i \in 1..Len(entries) : TocField(i).start + TocField(i).length > Len(data))
        => err = "Mech3ArchiveError"

\* C10: a TOC entry whose name field holds a non-ASCII byte before its first
\* NUL makes read_archive fail with Mech3ArchiveError.
NonAsciiBeforeNul(raw) ==
    \E k \in 1..Len(raw) : raw[k] >= 128 /\ \A j \in 1..k : raw[j] # 0
C10_NonAsciiNameFails ==
    (/\ pc = "failed"
     /\ err # "struct.error"
     /\ prev >= 0
     /\ prev + TOC_ENTRY_size <= Len(data) - TOC_FOOTER_size
     /\ NonAsciiBeforeNul(TOC_ENTRY_unpack(data, prev).raw_name))
        => err = "Mech3ArchiveError"


(***************************************************************************)
(* Textures (parse/textures.py, parse/colors.py, convert/textures.py)      *)
(*                                                                         *)
(* An image is [mode, width, height, data, alpha, resized]: the bytes it   *)
(* was made from, and whether stretch_img has resampled it.                *)
(***************************************************************************)
TEX_HEADER_size == 24
TEX_ENTRY_size == 40
TEX_INFO_size == 16

BytesPerPixels2 == 1
HasAlpha == 2
FullAlpha == 8
UseGlobalPalette == 16
\* TextureFlag.__call__: value & self == self, for a one-bit flag
TextureFlag_call(flag, value) == (value \div flag) % 2 = 1
\* TextureFlag.check: 0 and bits outside the eight members are undefined
TextureFlag_check(value) == value # 0 /\ value < 256

\* struct "<i"
INT32_at(b, off) ==
    b[off + 1] + 256 * b[off + 2] + 65536 * b[off + 3]
        + 16777216 * (IF b[off + 4] >= 128 THEN b[off + 4] - 256 ELSE b[off + 4])
UINT16S_at(b, off, n) == [k \in 1..n |-> UINT16_at(b, off + 2 * (k - 1))]

\* calc_lerp888 and rgb565to888 of parse/colors.py
calc_lerp888(ushort) ==
    <<(((ushort \div 2048) % 32) * 510 + 31) \div 62,
      (((ushort \div 32) % 64) * 510 + 63) \div 126,
      ((ushort % 32) * 510 + 31) \div 62>>
rgb565to888(colors) == Concat([k \in 1..Len(colors) |-> calc_lerp888(colors[k])])
simple_alpha565(colors) == [k \in 1..Len(colors) |-> IF colors[k] = 0 THEN 0 ELSE 255]

\* _validate_texture_info: the exception it raises, "" when none
validate_texture_info_any_stretch(flag, zero, stretch) ==
    IF zero # 0 THEN "Mech3ParseError"
    ELSE IF ~TextureFlag_check(flag) THEN "Mech3ParseError"
    ELSE IF ~TextureFlag_call(BytesPerPixels2, flag) THEN "Mech3TextureError"
    ELSE IF TextureFlag_call(UseGlobalPalette, flag) THEN "Mech3TextureError"
    ELSE ""

validate_texture_info(flag, zero, stretch) ==
    IF zero # 0 THEN "Mech3ParseError"
    ELSE IF stretch >= 4 THEN "Mech3ParseError"
    ELSE IF ~TextureFlag_check(flag) THEN "Mech3ParseError"
    ELSE IF ~TextureFlag_call(BytesPerPixels2, flag) THEN "Mech3TextureError"
    ELSE IF TextureFlag_call(UseGlobalPalette, flag) THEN "Mech3TextureError"
    ELSE ""

Image(mode, width, height, bytes, alpha) ==
    [mode |-> mode, width |-> width, height |-> height, data |-> bytes,
     alpha |-> alpha, resized |-> FALSE]

\* stretch_img: stretch is 1, 2 or 3 here
stretch_img(img, stretch) ==
    [img EXCEPT !.width = IF stretch \in {1, 3} THEN 2 * @ ELSE @,
                !.height = IF stretch \in {2, 3} THEN 2 * @ ELSE @,
                !.resized = TRUE]

DecodedTexture(name, image, flag, stretch, palette_count, palette_data) ==
    [name |-> name, image |-> image, flag |-> flag, stretch |-> stretch,
     palette_count |-> palette_count, palette_data |-> palette_data]

\* _read_texture: the DecodedTexture and the offset behind it, or the
\* exception.  Image.frombytes raises ValueError when it is given fewer bytes
\* than the image has pixels.
read_texture_at(b, name, off, stretching) ==
    IF unpack_from_pos(b, off, TEX_INFO_size) < 0 THEN ReadFails("struct.error", off)
    ELSE
    LET flag == UINT32_at(b, off)
        width == UINT16_at(b, off + 4)
        height == UINT16_at(b, off + 6)
        zero == UINT32_at(b, off + 8)
        palette_count == UINT16_at(b, off + 12)
        stretch == UINT16_at(b, off + 14)
        invalid == validate_texture_info(flag, zero, stretch)
        at == off + TEX_INFO_size
        size == width * height
        has_full_alpha == TextureFlag_call(FullAlpha, flag)
        has_simple_alpha == TextureFlag_call(HasAlpha, flag) /\ ~has_full_alpha
    IN  IF invalid # "" THEN ReadFails(invalid, off)
        ELSE IF palette_count = 0
        THEN IF Len(b) - at < 2 * size THEN ReadFails("struct.error", at)
             ELSE
             LET pixels == UINT16S_at(b, at, size)
                 o == at + 2 * size
                 alpha_data == IF has_full_alpha THEN Slice(b, o, o + size)
                               ELSE IF has_simple_alpha THEN simple_alpha565(pixels)
                               ELSE <<>>
                 end == IF has_full_alpha THEN o + size ELSE o
                 rgb == Image("RGB", width, height, rgb565to888(pixels), <<>>)
                 img == IF alpha_data # <<>>
                        THEN [rgb EXCEPT !.mode = "RGBA", !.alpha = alpha_data]
                        ELSE rgb
             IN  IF alpha_data # <<>> /\ Len(alpha_data) < size
                 THEN ReadFails("ValueError", o)
                 ELSE Read(DecodedTexture(name,
                                          IF stretching /\ stretch > 0
                                          THEN stretch_img(img, stretch) ELSE img,
                                          flag, stretch, palette_count, None), end)
        ELSE
        LET image_data == Slice(b, at, at + size)
            o == at + size
            alpha_data == IF has_full_alpha THEN Slice(b, o, o + size) ELSE <<>>
            p == IF has_full_alpha THEN o + size ELSE o
            end == p + 2 * palette_count
        IN  IF \E k \in 1..Len(image_data) : image_data[k] >= palette_count
            THEN ReadFails("Mech3TextureError", at)
            ELSE IF has_simple_alpha THEN ReadFails("Mech3TextureError", at)
            ELSE IF Len(b) - p < 2 * palette_count THEN ReadFails("struct.error", p)
            ELSE IF Len(image_data) < size THEN ReadFails("ValueError", p)
            ELSE IF alpha_data # <<>> /\ Len(alpha_data) < size
            THEN ReadFails("ValueError", p)
            ELSE
            LET palette_data == rgb565to888(UINT16S_at(b, p, palette_count))
                indexed == Image("P", width, height, image_data, <<>>)
                img == IF alpha_data # <<>>
                       THEN [indexed EXCEPT !.mode = "RGBA", !.alpha = alpha_data]
                       ELSE indexed
            IN  Read(DecodedTexture(name,
                                    IF stretching /\ stretch > 0
                                    THEN stretch_img(img, stretch) ELSE img,
                                    flag, stretch, palette_count, Some(palette_data)),
                     end)

\* The table loop of read_textures: the exception entry i or a later one
\* raises, "" when none.
RECURSIVE read_textures_table(_, _, _)
read_textures_table(b, i, n) ==
    IF i > n THEN ""
    ELSE LET o == TEX_HEADER_size + TEX_ENTRY_size * (i - 1)
         IN  IF unpack_from_pos(b, o, TEX_ENTRY_size) < 0 THEN "struct.error"
             ELSE IF INT32_at(b, o + 36) # -1 THEN "Mech3ParseError"
             ELSE IF ~ascii_zterm(SubSeq(b, o + 1, o + 32)).ok
             THEN ascii_zterm(SubSeq(b, o + 1, o + 32)).err
             ELSE read_textures_table(b, i + 1, n)

\* The default of do_stretch in read_textures and in textures_zbd_to_zip
read_textures_do_stretch == TRUE
textures_zbd_to_zip_do_stretch == FALSE

\* The call binds do_stretch; read_textures checks the header and reads the
\* table.
call_read_textures ==
    /\ pc = "read_textures"
    /\ do_stretch' = (IF call.do_stretch = "omitted"
                      THEN IF call.fn = "read_textures" THEN read_textures_do_stretch
                           ELSE textures_zbd_to_zip_do_stretch
                      ELSE call.do_stretch = "True")
    /\ IF unpack_from_pos(data, 0, TEX_HEADER_size) < 0
       THEN pc' = "failed" /\ err' = "struct.error" /\ UNCHANGED <<count, offset>>
       ELSE IF \/ UINT32_at(data, 0) # 0 \/ UINT32_at(data, 4) # 1
               \/ UINT32_at(data, 8) # 0 \/ UINT32_at(data, 16) # 0
               \/ UINT32_at(data, 20) # 0
       THEN pc' = "failed" /\ err' = "Mech3ParseError" /\ UNCHANGED <<count, offset>>
       ELSE LET n == UINT32_at(data, 12)
                e == read_textures_table(data, 1, n)
            IN  /\ count' = n
                /\ offset' = TEX_HEADER_size + TEX_ENTRY_size * n
                /\ pc' = (IF e = "" THEN "read_texture" ELSE "failed")
                /\ err' = e
    /\ UNCHANGED <<data, textures, call>>
    /\ UNCHANGED notTextures

\* One turn of the second loop of read_textures.
read_texture ==
    /\ pc = "read_texture"
    /\ Len(textures) < count
    /\ LET o == TEX_HEADER_size + TEX_ENTRY_size * Len(textures)
           name == ascii_zterm(SubSeq(data, o + 1, o + 32)).value
           start == UINT32_at(data, o + 32)
           r == read_texture_at(data, name, offset, do_stretch)
       IN  IF start # offset
           THEN pc' = "failed" /\ err' = "Mech3ParseError" /\ UNCHANGED <<textures, offset>>
           ELSE IF ~r.ok
           THEN pc' = "failed" /\ err' = r.err /\ UNCHANGED <<textures, offset>>
           ELSE /\ textures' = Append(textures, r.value)
                /\ offset' = r.offset
                /\ pc' = "read_texture" /\ err' = ""
    /\ UNCHANGED <<data, count, do_stretch, call>>
    /\ UNCHANGED notTextures

\* The generator is exhausted.
read_textures_end ==
    /\ pc = "read_texture"
    /\ Len(textures) = count
    /\ pc' = "textures_read"
    /\ UNCHANGED <<data, offset, count, textures, do_stretch, call, err>>
    /\ UNCHANGED notTextures

\* Input texture files: a valid header and table, n records at the offsets
\* the table gives, nothing after them.  The records before the last are 1x1
\* RGB-565 images with stretch 1.  The last record draws flag, size, zero,
\* palette_count and stretch from small sets; all its pixels are `fill`, all
\* its alpha bytes 127 and all its palette colours 0x001f.
TexInfo_pack(flag, width, height, zero, palette_count, stretch) ==
    UINT32_pack(flag) \o UINT16_pack(width) \o UINT16_pack(height) \o UINT32_pack(zero)
        \o UINT16_pack(palette_count) \o UINT16_pack(stretch)
TexRecord_pack(flag, width, height, zero, palette_count, stretch, fill) ==
    TexInfo_pack(flag, width, height, zero, palette_count, stretch)
        \o (IF palette_count = 0
            THEN Concat([k \in 1..(width * height) |-> <<fill, 0>>])
            ELSE [k \in 1..(width * height) |-> fill])
        \o (IF TextureFlag_call(FullAlpha, flag)
            THEN [k \in 1..(width * height) |-> 127] ELSE <<>>)
        \o Concat([k \in 1..palette_count |-> <<31, 0>>])
TexPlain == TexRecord_pack(BytesPerPixels2, 1, 1, 0, 0, 1, 1)
TexFlags == {1, 3, 9, 17, 2, 0, 257}

InitTextures ==
    /\ \E n \in 0..MaxTextures, fn \in {"read_textures", "textures_zbd_to_zip"},
          arg \in {"omitted", "True", "False"} :
         \E flag \in TexFlags, width \in 1..MaxDim, height \in 1..MaxDim,
            zero \in 0..1, palette_count \in {0, 2}, stretch \in 0..4, fill \in 0..2 :
            /\ call = [fn |-> fn, do_stretch |-> arg]
            /\ data = UINT32_pack(0) \o UINT32_pack(1) \o UINT32_pack(0)
                       \o UINT32_pack(n) \o UINT32_pack(0) \o UINT32_pack(0)
                       \o Concat([k \in 1..n |->
                                    Bytes_pack(<<116, 48 + k>>, 32)
                                        \o UINT32_pack(TEX_HEADER_size + TEX_ENTRY_size * n
                                                         + Len(TexPlain) * (k - 1))
                                        \o <<255, 255, 255, 255>>])
                       \o Concat([k \in 1..n |->
                                    IF k = n
                                    THEN TexRecord_pack(flag, width, height, zero,
                                                        palette_count, stretch, fill)
                                    ELSE TexPlain])
    /\ pc = "read_textures"
    /\ offset = 0 /\ prev = 0 /\ count = 0
    /\ entries = <<>> /\ root = <<>> /\ scripts = <<>> /\ motion = <<>>
    /\ materials = <<>> /\ names = {} /\ renames = <<>>
    /\ filetime = Tick(0, 0) /\ write_time = <<>> /\ filetime_out = Tick(0, 0)
    /\ f = <<>> /\ err = ""
    /\ meshes = <<>>
    /\ wrapped_meshes = <<>>
    /\ anim_names = <<>>
    /\ seqdef = <<>>
    /\ sequences = <<>>
    /\ anim_def = <<>>
    /\ array_size = 0
    /\ slot = 0
    /\ nodes = <<>>
    /\ do_stretch = FALSE
    /\ textures = <<>>

NextTextures == call_read_textures \/ read_texture \/ read_textures_end

SpecTextures == InitTextures /\ [][NextTextures]_vars

\* The TEX_INFO record of texture i of the input, by the offset its table
\* entry gives.
TexStart(i) == UINT32_at(data, TEX_HEADER_size + TEX_ENTRY_size * (i - 1) + 32)
TexInfo(i) ==
    LET o == TexStart(i)
    IN  [flag |-> UINT32_at(data, o), width |-> UINT16_at(data, o + 4),
         height |-> UINT16_at(data, o + 6), palette_count |-> UINT16_at(data, o + 12),
         stretch |-> UINT16_at(data, o + 14),
         indices |-> Slice(data, o + TEX_INFO_size,
                           o + TEX_INFO_size
                             + UINT16_at(data, o + 4) * UINT16_at(data, o + 6))]

\* C14: a record the texture decoder accepts has BytesPerPixels2 set,
\* UseGlobalPalette unset, a stretch code of 0..3 and, when it has a palette,
\* only pixel indices below palette_count; a record violating any of these
\* yields no image, and the decode ends with an error.
C14_TextureValidity ==
    /\ \A i \in 1..Len(textures) :
          /\ TextureFlag_call(BytesPerPixels2, TexInfo(i).flag)
          /\ ~TextureFlag_call(UseGlobalPalette, TexInfo(i).flag)
          /\ TexInfo(i).stretch \in 0..3
          /\ TexInfo(i).palette_count > 0 =>
                \A k \in 1..Len(TexInfo(i).indices) :
                    TexInfo(i).indices[k] < TexInfo(i).palette_count
    /\ pc = "textures_read" => Len(textures) = count
    /\ pc = "failed" => err # ""

C14_Witness ==
    /\ pc = "textures_read"
    /\ Len(textures) = 2
    /\ textures[2].palette_count = 2

\* C15: a texture decode that does not ask for stretching returns every
\* image at its stored width and height, whatever its stretch code.
C15_StretchOffByDefault ==
    call.do_stretch = "omitted" =>
        \A i \in 1..Len(textures) :
            /\ textures[i].image.width = TexInfo(i).width
            /\ textures[i].image.height = TexInfo(i).height

(***************************************************************************)
(* GameZ nodes (parse/gamez/node_read.py, node_info.py, node_data_read.py) *)
(*                                                                         *)
(* read_nodes reads a table of array_size node-info slots, each followed   *)
(* by a u32, and then the data of every node that is not Empty.  The       *)
(* inputs hold World, Window, Camera, Display and Empty nodes; Object3D,   *)
(* LOD and Light nodes are not among them.                                 *)
(***************************************************************************)

\* Single-precision floats by their fields.  Values of magnitude 2^31 and
\* more are not among the inputs.
FloatSign(v) == v[4] \div 128
FloatExp(v) == (v[4] % 128) * 2 + v[3] \div 128
FloatMant(v) == (v[3] % 128) * 65536 + v[2] * 256 + v[1]
FloatBits(s, e, m) ==
    <<m % 256, (m \div 256) % 256, (e % 2) * 128 + m \div 65536, s * 128 + e \div 2>>
IsInf(v) == FloatExp(v) = 255 /\ FloatMant(v) = 0
Pow2(n) == 2 ^ n

\* The magnitude of a finite float as an integer, truncated towards zero
FloatTrunc(v) ==
    LET e == FloatExp(v)
        sig == 8388608 + FloatMant(v)
    IN  IF e < 127 THEN 0
        ELSE IF e >= 150 THEN sig * Pow2(e - 150)
        ELSE sig \div Pow2(150 - e)
\* int(v) of a finite float
float_int(v) == IF FloatSign(v) = 1 THEN 0 - FloatTrunc(v) ELSE FloatTrunc(v)
\* n == v for an int n and a float v
IntEqFloat(n, v) ==
    /\ ~IsNaN(v) /\ ~IsInf(v)
    /\ float_int(v) = n
    /\ \/ IsZero(v)
       \/ FloatExp(v) >= 150
       \/ FloatExp(v) >= 127 /\ (8388608 + FloatMant(v)) % Pow2(150 - FloatExp(v)) = 0

\* The magnitude of a finite float as a pair that orders like the float
FloatMagnitude(v) == FloatExp(v) * 8388608 + FloatMant(v)
\* v > w on two floats: false when either is NaN
FloatGt(v, w) ==
    /\ ~IsNaN(v) /\ ~IsNaN(w)
    /\ ~(IsZero(v) /\ IsZero(w))
    /\ IF FloatSign(v) # FloatSign(w) THEN FloatSign(v) = 0
       ELSE IF FloatSign(v) = 0 THEN FloatMagnitude(v) > FloatMagnitude(w)
       ELSE FloatMagnitude(v) < FloatMagnitude(w)

\* floor(log2(n)) for n >= 1
RECURSIVE Log2(_)
Log2(n) == IF n < 2 THEN 0 ELSE 1 + Log2(n \div 2)
\* struct's "f" of the number q / 4, for an integer 0 <= q < 2^24
FLOAT_pack_quarters(q) ==
    IF q = 0 THEN <<0, 0, 0, 0>>
    ELSE FloatBits(0, 125 + Log2(q), q * Pow2(23 - Log2(q)) - 8388608)
\* struct's "f" of an int of magnitude below 2^22
FLOAT_pack_int(n) ==
    IF n >= 0 THEN FLOAT_pack_quarters(4 * n)
    ELSE LET p == FLOAT_pack_quarters(4 * (0 - n)) IN <<p[1], p[2], p[3], p[4] + 128>>

\* v / 2.0 of a normal float whose half is normal
FloatHalve(v) == FloatBits(FloatSign(v), FloatExp(v) - 1, FloatMant(v))

\* approx_sqrt of a positive float: (bits >> 1) + 0x1FC00000
approx_sqrt(v) ==
    LET cast == FloatExp(v) * 8388608 + FloatMant(v)
        approx == cast \div 2 + 532676608
    IN  FloatBits(0, approx \div 8388608, approx % 8388608)

NODE_INFO_size == 208
DEFAULT_NODE_NAME == <<68, 101, 102, 97, 117, 108, 116, 95, 110, 111, 100, 101, 95, 110, 97, 109, 101>>

NodeType_Empty == 0
NodeType_Camera == 1
NodeType_World == 2
NodeType_Window == 3
NodeType_Display == 4
NodeType_Object3D == 5
NodeType_LOD == 6
NodeType_Light == 9
\* NodeType(value): the values of the enumeration
NodeType == {NodeType_Empty, NodeType_Camera, NodeType_World, NodeType_Window,
             NodeType_Display, NodeType_Object3D, NodeType_LOD, NodeType_Light}

\* The bits NodeFlag defines
NodeFlagBits == {2, 3, 4, 5, 7, 8, 9, 10, 15, 16, 17, 19, 24, 25, 28}
NodeFlag_check(value) ==
    /\ value # 0
    /\ \A k \in 0..30 : (value \div Pow2(k)) % 2 = 1 => k \in NodeFlagBits
NODE_FLAG_BASE == Pow2(2) + Pow2(19) + Pow2(24)
NODE_FLAG_DEFAULT == NODE_FLAG_BASE + Pow2(3) + Pow2(4)
\* flag & NODE_FLAG_BASE == NODE_FLAG_BASE
HasFlagBase(flag) == \A k \in {2, 19, 24} : (flag \div Pow2(k)) % 2 = 1
ZONE_DEFAULT == 255
\* block == BLOCK_EMPTY on a tuple of six floats
IsBlockEmpty(block) == \A k \in 1..6 : IsZero(block[k])

NameWorld == <<119, 111, 114, 108, 100, 49>>          \* "world1"
NameWindow == <<119, 105, 110, 100, 111, 119, 49>>    \* "window1"
NameCamera == <<99, 97, 109, 101, 114, 97, 49>>       \* "camera1"
NameDisplay == <<100, 105, 115, 112, 108, 97, 121>>   \* "display"

ascii_zterm_node_name(buf) ==
    LET null_index == FindNul(buf)
        compare == [k \in 1..Len(buf) |->
                      IF k <= null_index + 1 THEN buf[k]
                      ELSE IF k <= Len(DEFAULT_NODE_NAME) THEN DEFAULT_NODE_NAME[k]
                      ELSE 0]
    IN  IF null_index < 0 THEN Raise("ValueError")
        ELSE IF buf # compare THEN Raise("ValueError")
        ELSE IF ~IsAscii(SubSeq(buf, 1, null_index)) THEN Raise("UnicodeDecodeError")
        ELSE Ok(SubSeq(buf, 1, null_index))

\* node.data before _read_node_data has run
NoData == [type |-> "None"]

\* The Node _read_node_info builds from the NODE_INFO record at position p
GamezNode(b, p, name) ==
    [name |-> name,
     node_type |-> UINT32_at(b, p + 52),
     flag |-> UINT32_at(b, p + 36),
     zone_id |-> UINT32_at(b, p + 48),
     mesh_index |-> INT32_at(b, p + 60),
     parent_count |-> UINT32_at(b, p + 84),
     parent_array_ptr |-> UINT32_at(b, p + 88),
     children_count |-> UINT32_at(b, p + 92),
     children_array_ptr |-> UINT32_at(b, p + 96),
     parent |-> 0,
     children |-> <<>>,
     data |-> NoData,
     data_ptr |-> UINT32_at(b, p + 56),
     area_partition_x |-> INT32_at(b, p + 76),
     area_partition_y |-> INT32_at(b, p + 80),
     unk044 |-> UINT32_at(b, p + 44),
     unk196 |-> UINT32_at(b, p + 196),
     block1 |-> FLOATS_at(b, p + 116, 6),
     block2 |-> FLOATS_at(b, p + 140, 6),
     block3 |-> FLOATS_at(b, p + 164, 6),
     offset |-> 0]

\* The assertions Camera, World, Window and Display nodes share
assert_node_info_fixed(node, name) ==
    /\ node.name = name
    /\ node.flag = NODE_FLAG_DEFAULT
    /\ node.unk044 = 0
    /\ node.zone_id = ZONE_DEFAULT
    /\ node.data_ptr # 0
    /\ node.mesh_index = -1
    /\ node.area_partition_x = -1
    /\ node.area_partition_y = -1
    /\ node.parent_count = 0
    /\ node.parent_array_ptr = 0
    /\ IsBlockEmpty(node.block1)
    /\ IsBlockEmpty(node.block2)
    /\ IsBlockEmpty(node.block3)
    /\ node.unk196 = 0

assert_node_info_empty(node) ==
    /\ HasFlagBase(node.flag)
    /\ node.unk044 \in {1, 3, 5, 7}
    /\ node.zone_id \in {1, ZONE_DEFAULT}
    /\ node.data_ptr = 0
    /\ node.mesh_index = -1
    /\ node.area_partition_x = -1
    /\ node.area_partition_y = -1
    /\ node.parent_count = 0
    /\ node.parent_array_ptr = 0
    /\ node.children_count = 0
    /\ node.children_array_ptr = 0
    /\ node.unk196 = 160

assert_node_info_camera(node) ==
    /\ assert_node_info_fixed(node, NameCamera)
    /\ node.children_count = 0
    /\ node.children_array_ptr = 0

assert_node_info_world(node) ==
    /\ assert_node_info_fixed(node, NameWorld)
    /\ node.children_count \in 1..64
    /\ node.children_array_ptr # 0

assert_node_info_window(node) ==
    /\ assert_node_info_fixed(node, NameWindow)
    /\ node.children_count = 0
    /\ node.children_array_ptr = 0

assert_node_info_display(node) ==
    /\ assert_node_info_fixed(node, NameDisplay)
    /\ node.children_count = 0
    /\ node.children_array_ptr = 0

\* ASSERT_NODE_INFO[node.node_type]
ASSERT_NODE_INFO(node) ==
    CASE node.node_type = NodeType_Empty -> assert_node_info_empty(node)
      [] node.node_type = NodeType_Camera -> assert_node_info_camera(node)
      [] node.node_type = NodeType_World -> assert_node_info_world(node)
      [] node.node_type = NodeType_Window -> assert_node_info_window(node)
      [] node.node_type = NodeType_Display -> assert_node_info_display(node)

\* _read_node_info at position p: the Node, or the exception
read_node_info_at(b, p) ==
    IF unpack_from_pos(b, p, NODE_INFO_size) < 0 THEN ReadFails("struct.error", p)
    ELSE
    LET name == ascii_zterm_node_name(SubSeq(b, p + 1, p + 36))
        node == GamezNode(b, p, name.value)
        zeros == {40, 64, 72, 100, 104, 108, 112, 188, 192, 200, 204}
    IN  IF ~name.ok
        THEN ReadFails(IF name.err = "UnicodeDecodeError" THEN "Mech3ParseError"
                       ELSE name.err, p)
        ELSE IF ~NodeFlag_check(node.flag) THEN ReadFails("Mech3ParseError", p)
        ELSE IF UINT32_at(b, p + 40) # 0 THEN ReadFails("Mech3ParseError", p)
        ELSE IF node.node_type \notin NodeType THEN ReadFails("Mech3ParseError", p)
        ELSE IF UINT32_at(b, p + 68) # 1 THEN ReadFails("Mech3ParseError", p)
        ELSE IF \E o \in zeros : UINT32_at(b, p + o) # 0 THEN ReadFails("Mech3ParseError", p)
        ELSE IF ~ASSERT_NODE_INFO(node) THEN ReadFails("Mech3ParseError", p)
        ELSE Read(node, p + NODE_INFO_size)

\* One iteration of _read_node_infos_zero at position p, for slot index k
read_node_info_zero_at(b, p, k, size) ==
    IF unpack_from_pos(b, p, NODE_INFO_size) < 0 THEN ReadFails("struct.error", p)
    ELSE IF \E o \in 1..36 : b[p + o] # 0 THEN ReadFails("Mech3ParseError", p)
    ELSE IF \E j \in 0..42 :
               LET o == 4 * j + 36
               IN  IF j = 6 THEN INT32_at(b, p + o) # -1
                   ELSE IF j \in 20..37 THEN ~IsZero(FLOAT_at(b, p + o))
                   ELSE UINT32_at(b, p + o) # 0
    THEN ReadFails("Mech3ParseError", p)
    ELSE IF unpack_from_pos(b, p + NODE_INFO_size, UINT32_size) < 0
    THEN ReadFails("struct.error", p + NODE_INFO_size)
    ELSE IF UINT32_at(b, p + NODE_INFO_size) # (IF k + 1 = size THEN 16777215 ELSE k + 1)
    THEN ReadFails("Mech3ParseError", p + NODE_INFO_size + UINT32_size)
    ELSE Read(<<>>, p + NODE_INFO_size + UINT32_size)

\* _read_node_infos_zero from slot index k
RECURSIVE read_node_infos_zero(_, _, _, _)
read_node_infos_zero(b, p, k, size) ==
    IF k >= size THEN Read(<<>>, p)
    ELSE LET r == read_node_info_zero_at(b, p, k, size)
         IN  IF r.ok THEN read_node_infos_zero(b, r.offset, k + 1, size) ELSE r

WORLD_size == 188
WINDOW_size == 248
DISPLAY_size == 28
CAMERA_size == 488
PARTITION_size == 72
CLEAR_COLOR == <<57, 180, 200, 62>>     \* 0.3919999897480011
Float_3 == <<0, 0, 64, 64>>             \* 3.0
Float_128 == <<0, 0, 0, 67>>            \* 128.0
Float_256 == <<0, 0, 128, 67>>          \* 256.0
Float_inv256 == <<0, 0, 128, 59>>       \* 1.0 / 256.0
Float_m192 == <<0, 0, 64, 195>>         \* -192.0
Negative(v) == <<v[1], v[2], v[3], v[4] + 128>>

\* range(start, stop, step) as a sequence
Range(start, stop, step) ==
    LET span == IF step > 0 THEN stop - start ELSE start - stop
        by == IF step > 0 THEN step ELSE 0 - step
        n == IF span <= 0 THEN 0 ELSE (span + by - 1) \div by
    IN  [k \in 1..n |-> start + step * (k - 1)]

\* all(byte == 0) over data[from:to]
AllZero(b, from, to) == \A k \in (from + 1)..to : b[k] = 0

Partition(x, y, ns, unk, ptr) == [x |-> x, y |-> y, nodes |-> ns, unk |-> unk, ptr |-> ptr]

\* reader.read(PARTITION) at position p and the assertions of _read_partitions
\* for the cell (x, y).  unk20 and unk32 hold whole numbers in every input,
\* and (unk32 - unk20) * 0.5 is computed from them.
partition_valid(b, p, x, y) ==
    LET temp2 == float_int(FLOAT_at(b, p + 32)) - float_int(FLOAT_at(b, p + 20))
        expected == approx_sqrt(FLOAT_pack_quarters(65536 + temp2 * temp2 + 65536))
    IN  /\ UINT32_at(b, p) = 256
        /\ INT32_at(b, p + 4) = -1
        /\ UINT16_at(b, p + 56) = 0
        /\ UINT32_at(b, p + 64) = 0
        /\ UINT32_at(b, p + 68) = 0
        /\ IntEqFloat(x, FLOAT_at(b, p + 8))
        /\ IntEqFloat(y, FLOAT_at(b, p + 12))
        /\ IntEqFloat(x, FLOAT_at(b, p + 16))
        /\ IntEqFloat(y - 256, FLOAT_at(b, p + 24))
        /\ IntEqFloat(x + 256, FLOAT_at(b, p + 28))
        /\ IntEqFloat(y, FLOAT_at(b, p + 36))
        /\ IntEqFloat(x + 128, FLOAT_at(b, p + 40))
        /\ IntEqFloat(y - 128, FLOAT_at(b, p + 48))
        /\ FloatEq(expected, FLOAT_at(b, p + 52))
        /\ IF UINT16_at(b, p + 58) # 0 THEN UINT32_at(b, p + 60) # 0
           ELSE UINT32_at(b, p + 60) = 0

\* The loop body of _read_partitions at position p
read_partition_at(b, p, x, y) ==
    IF unpack_from_pos(b, p, PARTITION_size) < 0 THEN ReadFails("struct.error", p)
    ELSE IF ~partition_valid(b, p, x, y) THEN ReadFails("Mech3ParseError", p)
    ELSE LET n == UINT16_at(b, p + 58)
             at == p + PARTITION_size
         IN  IF Len(b) - at < UINT32_size * n THEN ReadFails("struct.error", at)
             ELSE Read(Partition(x, y,
                                 [k \in 1..n |-> UINT32_at(b, at + UINT32_size * (k - 1))],
                                 <<FLOAT_at(b, p + 20), FLOAT_at(b, p + 32),
                                   FLOAT_at(b, p + 44)>>,
                                 UINT32_at(b, p + 60)),
                       at + UINT32_size * n)

\* _read_partitions from cell c of the grid, row by row: the rows read
RECURSIVE read_partitions(_, _, _, _, _, _)
read_partitions(b, p, xs, ys, c, rows) ==
    IF c > Len(xs) * Len(ys) THEN Read(rows, p)
    ELSE LET row == ((c - 1) \div Len(xs)) + 1
             col == ((c - 1) % Len(xs)) + 1
             r == read_partition_at(b, p, xs[col], ys[row])
         IN  IF ~r.ok THEN r
             ELSE read_partitions(b, r.offset, xs, ys, c + 1,
                                  IF col = 1 THEN Append(rows, <<r.value>>)
                                  ELSE [rows EXCEPT ![row] = Append(@, r.value)])

\* area_x = range(area_left, area_right, 256)
area_x(area_left, area_right) == Range(area_left, area_right, 256)
\* area_y = range(area_bottom, area_top, -256): the rows run from the bottom
\* of the rectangle, which is its larger y, down to its top
area_y_from_top(area_bottom, area_top) == Range(area_top, area_bottom, 256)
area_y(area_bottom, area_top) == Range(area_bottom, area_top, -256)

World(area, partitions, children, x_count, y_count, fudge_count, ptrs) ==
    [type |-> "World", area |-> area, partitions |-> partitions, children |-> children,
     area_partition_x_count |-> x_count, area_partition_y_count |-> y_count,
     fudge_count |-> fudge_count, area_partition_ptr |-> ptrs[1],
     virt_partition_ptr |-> ptrs[2], children_ptr |-> ptrs[3], lights_ptr |-> ptrs[4]]

\* _read_node_data_world at position p
read_node_data_world(b, p) ==
    IF unpack_from_pos(b, p, WORLD_size) < 0 THEN ReadFails("struct.error", p)
    ELSE
    LET F(o) == FLOAT_at(b, p + o)
        U(o) == UINT32_at(b, p + o)
        area_left == float_int(F(52))
        area_bottom == float_int(F(56))
        area_right == float_int(F(68))
        area_top == float_int(F(72))
        xs == area_x(area_left, area_right)
        ys == area_y(area_bottom, area_top)
        virt_partition_count == U(136) * U(140)
        at == p + WORLD_size
    IN  IF U(0) # 0 \/ U(16) # 1 \/ \E o \in {20, 24, 28, 32, 36, 40, 44, 48} : ~IsZero(F(o))
        THEN ReadFails("Mech3ParseError", p)
        ELSE IF \E o \in {52, 56, 68, 72} : IsNaN(F(o)) THEN ReadFails("ValueError", p)
        ELSE IF \E o \in {52, 56, 68, 72} : IsInf(F(o)) THEN ReadFails("OverflowError", p)
        ELSE IF ~(/\ IntEqFloat(area_left, F(52)) /\ IntEqFloat(area_bottom, F(56))
                  /\ IntEqFloat(area_right, F(68)) /\ IntEqFloat(area_top, F(72))
                  /\ area_right > area_left
                  /\ area_bottom > area_top
                  /\ IntEqFloat(area_right - area_left, F(60))
                  /\ IntEqFloat(area_top - area_bottom, F(64))
                  /\ U(76) = 16 /\ U(80) = 1 /\ U(84) = 1 /\ U(88) = 1
                  /\ FloatEq(F(100), Float_256) /\ FloatEq(F(104), Negative(Float_256))
                  /\ FloatEq(F(108), Float_128) /\ FloatEq(F(112), Negative(Float_128))
                  /\ FloatEq(F(116), Float_inv256)
                  /\ FloatEq(F(120), Negative(Float_inv256))
                  /\ FloatEq(F(124), Float_m192)
                  /\ FloatEq(F(128), Float_3) /\ FloatEq(F(132), Float_3)
                  /\ U(136) = Len(xs) /\ U(140) = Len(ys)
                  /\ U(4) = 0
                  /\ U(92) = U(136) - 1 /\ U(96) = U(140) - 1
                  /\ virt_partition_count - 1 <= U(8) /\ U(8) <= virt_partition_count
                  /\ U(12) # 0 /\ U(144) # 0
                  /\ FloatEq(F(148), PlusOne) /\ FloatEq(F(152), PlusOne)
                  /\ FloatEq(F(156), PlusOne)
                  /\ U(160) = 1 /\ U(164) # 0 /\ U(168) # 0
                  /\ U(172) = 0 /\ U(176) = 0 /\ U(180) = 0 /\ U(184) = 0)
        THEN ReadFails("Mech3ParseError", p)
        ELSE IF unpack_from_pos(b, at, UINT32_size) < 0 THEN ReadFails("struct.error", at)
        ELSE LET r == read_partitions(b, at + UINT32_size, xs, ys, 1, <<>>)
             IN  IF ~r.ok THEN r
                 ELSE Read(World(<<area_left, area_top, area_right, area_bottom>>, r.value,
                                 <<UINT32_at(b, at)>>, U(136), U(140),
                                 U(8) # virt_partition_count,
                                 <<U(12), U(144), U(164), U(168)>>),
                           r.offset)

\* _read_node_data_window at position p
read_node_data_window(b, p) ==
    IF unpack_from_pos(b, p, WINDOW_size) < 0 THEN ReadFails("struct.error", p)
    ELSE IF ~(/\ UINT32_at(b, p) = 0 /\ UINT32_at(b, p + 4) = 0
              /\ UINT32_at(b, p + 8) = 320 /\ UINT32_at(b, p + 12) = 200
              /\ AllZero(b, p + 16, p + 228)
              /\ INT32_at(b, p + 228) = -1
              /\ AllZero(b, p + 232, p + 248))
    THEN ReadFails("Mech3ParseError", p)
    ELSE Read([type |-> "Window", resolution |-> <<320, 200>>], p + WINDOW_size)

\* _read_node_data_display at position p
read_node_data_display(b, p) ==
    IF unpack_from_pos(b, p, DISPLAY_size) < 0 THEN ReadFails("struct.error", p)
    ELSE IF ~(/\ UINT32_at(b, p) = 0 /\ UINT32_at(b, p + 4) = 0
              /\ UINT32_at(b, p + 8) = 640 /\ UINT32_at(b, p + 12) = 400
              /\ FloatEq(FLOAT_at(b, p + 16), CLEAR_COLOR)
              /\ FloatEq(FLOAT_at(b, p + 20), CLEAR_COLOR)
              /\ FloatEq(FLOAT_at(b, p + 24), PlusOne))
    THEN ReadFails("Mech3ParseError", p)
    ELSE Read([type |-> "Display", resolution |-> <<640, 400>>,
               clear_color |-> <<CLEAR_COLOR, CLEAR_COLOR, PlusOne>>], p + DISPLAY_size)

\* force_single_prec(1.0 / tan(v)) for the half angles of the inputs
tan_inv(v) ==
    CASE v = <<0, 0, 0, 63>> -> <<108, 77, 234, 63>>        \* 0.5
      [] v = <<0, 0, 128, 62>> -> <<242, 164, 122, 64>>     \* 0.25

\* _read_node_data_camera at position p
read_node_data_camera(b, p) ==
    IF unpack_from_pos(b, p, CAMERA_size) < 0 THEN ReadFails("struct.error", p)
    ELSE
    LET F(o) == FLOAT_at(b, p + o)
    IN  IF ~(/\ INT32_at(b, p) = 0 /\ INT32_at(b, p + 4) = 1
             /\ INT32_at(b, p + 8) = -1 /\ INT32_at(b, p + 12) = -1
             /\ INT32_at(b, p + 16) = 0
             /\ \A o \in {20, 24, 28, 32, 36, 40} : IsZero(F(o))
             /\ AllZero(b, p + 44, p + 176)
             /\ FloatGt(F(176), Float_0)
             /\ FloatGt(F(180), F(176))
             /\ AllZero(b, p + 184, p + 208)
             /\ \A o \in {208, 212, 216, 220} : FloatEq(F(o), PlusOne)
             /\ FloatGt(F(224), Float_0) /\ FloatGt(F(228), Float_0)
             /\ FloatEq(F(232), F(224)) /\ FloatEq(F(236), F(228))
             /\ FloatEq(F(240), FloatHalve(F(232))) /\ FloatEq(F(244), FloatHalve(F(236)))
             /\ UINT32_at(b, p + 248) = 1 /\ AllZero(b, p + 252, p + 312)
             /\ UINT32_at(b, p + 312) = 1 /\ AllZero(b, p + 316, p + 388)
             /\ UINT32_at(b, p + 388) = 1 /\ AllZero(b, p + 392, p + 468)
             /\ FloatEq(F(468), tan_inv(F(240))) /\ FloatEq(F(472), tan_inv(F(244)))
             /\ INT32_at(b, p + 476) = 0 /\ INT32_at(b, p + 480) = 0
             /\ INT32_at(b, p + 484) = -256)
        THEN ReadFails("Mech3ParseError", p)
        ELSE Read([type |-> "Camera", clip |-> <<F(176), F(180)>>,
                   fov |-> <<F(224), F(228)>>], p + CAMERA_size)

\* READ_NODE_DATA[node.node_type](reader)
READ_NODE_DATA(node_type, b, p) ==
    CASE node_type = NodeType_Camera -> read_node_data_camera(b, p)
      [] node_type = NodeType_World -> read_node_data_world(b, p)
      [] node_type = NodeType_Window -> read_node_data_window(b, p)
      [] node_type = NodeType_Display -> read_node_data_display(b, p)

\* The end of _read_node_data: node.data is d, the data read for the node, and
\* the parent and the children indices follow it
read_node_relatives(b, node, d) ==
    LET n == (IF node.parent_count # 0 THEN 1 ELSE 0) + node.children_count
        at == IF node.parent_count # 0 THEN d.offset + UINT32_size ELSE d.offset
    IN  IF ~d.ok THEN d
        ELSE IF Len(b) - d.offset < UINT32_size * n THEN ReadFails("struct.error", d.offset)
        ELSE Read([node EXCEPT
                     !.data = d.value,
                     !.parent = IF node.parent_count # 0 THEN UINT32_at(b, d.offset) ELSE @,
                     !.children = [k \in 1..node.children_count |->
                                     UINT32_at(b, at + UINT32_size * (k - 1))]],
                  d.offset + UINT32_size * n)

\* _read_node_data at position p: the node with its data, parent and children
read_node_data_at(b, p, node) ==
    read_node_relatives(b, node, READ_NODE_DATA(node.node_type, b, p))

\* end_offset of read_nodes, for a table that starts at offset 0
NodesEndOffset == NODE_INFO_size * array_size + UINT32_size * array_size
\* prev_offset of read_nodes: the offset read for the last node that is not
\* Empty, end_offset when there is none
RECURSIVE PrevOffset(_, _)
PrevOffset(ns, k) ==
    IF k = 0 THEN NodesEndOffset
    ELSE IF ns[k].node_type # NodeType_Empty THEN ns[k].offset
    ELSE PrevOffset(ns, k - 1)

\* The first loop of read_nodes, one slot: a node info and the u32 after it.
read_node_info ==
    /\ pc = "read_node_infos"
    /\ slot < array_size
    /\ IF offset >= Len(data)
       THEN pc' = "failed" /\ err' = "IndexError" /\ UNCHANGED <<offset, prev, nodes, slot>>
       ELSE
       /\ data[offset + 1] # 0
       /\ LET r == read_node_info_at(data, offset)
              node == r.value
              at == r.offset
              ref == UINT32_at(data, at)
          IN  IF ~r.ok
              THEN pc' = "failed" /\ err' = r.err /\ UNCHANGED <<offset, prev, nodes, slot>>
              ELSE IF \/ node.node_type = NodeType_World /\ slot # 0
                      \/ node.node_type = NodeType_Window /\ slot # 1
                      \/ node.node_type = NodeType_Camera /\ slot # 2
              THEN /\ pc' = "failed" /\ err' = "Mech3ParseError"
                   /\ UNCHANGED <<offset, prev, nodes, slot>>
              ELSE IF unpack_from_pos(data, at, UINT32_size) < 0
              THEN /\ pc' = "failed" /\ err' = "struct.error"
                   /\ UNCHANGED <<offset, prev, nodes, slot>>
              ELSE IF IF node.node_type = NodeType_Empty
                      THEN ref < 4 \/ ref > array_size
                      ELSE ref < PrevOffset(nodes, Len(nodes)) \/ ref > Len(data) - 1
              THEN /\ pc' = "failed" /\ err' = "Mech3ParseError"
                   /\ UNCHANGED <<offset, prev, nodes, slot>>
              ELSE /\ nodes' = Append(nodes,
                                      [node EXCEPT !.offset = ref,
                                                   !.parent = IF node.node_type = NodeType_Empty
                                                              THEN ref ELSE @])
                   /\ offset' = at + UINT32_size
                   /\ prev' = at
                   /\ slot' = slot + 1
                   /\ UNCHANGED <<pc, err>>
    /\ UNCHANGED <<data, array_size>>
    /\ UNCHANGED notNodes

\* The first loop ends, at an unused slot or after array_size slots, and
\* _read_node_infos_zero reads the slots from the last value of the loop
\* variable.  With array_size = 0 the loop variable was never bound.
read_node_infos_end ==
    /\ pc = "read_node_infos"
    /\ \/ slot = array_size
       \/ slot < array_size /\ offset < Len(data) /\ data[offset + 1] = 0
    /\ LET index == IF slot = array_size THEN slot - 1 ELSE slot
           r == read_node_infos_zero(data, offset, index, array_size)
       IN  IF array_size = 0
           THEN pc' = "failed" /\ err' = "UnboundLocalError" /\ UNCHANGED <<offset, prev, slot>>
           ELSE IF ~r.ok
           THEN pc' = "failed" /\ err' = r.err /\ UNCHANGED <<offset, prev, slot>>
           ELSE IF r.offset # NodesEndOffset
           THEN pc' = "failed" /\ err' = "Mech3ParseError" /\ UNCHANGED <<offset, prev, slot>>
           ELSE /\ pc' = "read_node_data"
                /\ offset' = r.offset
                /\ prev' = IF r.offset = offset THEN prev ELSE r.offset - UINT32_size
                /\ slot' = 0
                /\ err' = ""
    /\ UNCHANGED <<data, array_size, nodes>>
    /\ UNCHANGED notNodes

\* The second loop of read_nodes, one node: its data, parent and children.
read_node_data ==
    /\ pc = "read_node_data"
    /\ slot < Len(nodes)
    /\ LET node == nodes[slot + 1]
       IN  IF node.node_type = NodeType_Empty
           THEN slot' = slot + 1 /\ UNCHANGED <<offset, prev, nodes, pc, err>>
           ELSE IF node.offset # offset
           THEN /\ pc' = "failed" /\ err' = "Mech3ParseError"
                /\ UNCHANGED <<offset, prev, nodes, slot>>
           ELSE \E r \in {read_node_data_at(data, offset, node)} :
                IF ~r.ok
                THEN pc' = "failed" /\ err' = r.err /\ UNCHANGED <<offset, prev, nodes, slot>>
                ELSE /\ nodes' = [nodes EXCEPT ![slot + 1] = r.value]
                     /\ offset' = r.offset
                     /\ prev' = IF node.parent_count + node.children_count > 0
                                THEN r.offset - UINT32_size ELSE offset
                     /\ slot' = slot + 1
                     /\ UNCHANGED <<pc, err>>
    /\ UNCHANGED <<data, array_size>>
    /\ UNCHANGED notNodes

\* _assert_area_partitions(world_node, nodes)
assert_area_partitions(ns) ==
    IF ns = <<>> \/ ns[1].node_type # NodeType_World THEN FALSE
    ELSE \A k \in 1..Len(ns) :
            LET x == ns[k].area_partition_x
                y == ns[k].area_partition_y
            IN  IF x > -1 /\ y > -1
                THEN /\ x <= ns[1].data.area_partition_x_count
                     /\ y <= ns[1].data.area_partition_y_count
                ELSE x = -1 /\ y = -1

\* Every node has its data: the area partitions and the end of the data.
read_nodes_end ==
    /\ pc = "read_node_data"
    /\ slot = Len(nodes)
    /\ IF ~assert_area_partitions(nodes) \/ offset # Len(data)
       THEN pc' = "failed" /\ err' = "Mech3ParseError"
       ELSE pc' = "nodes_read" /\ err' = ""
    /\ UNCHANGED <<data, offset, prev, array_size, nodes, slot>>
    /\ UNCHANGED notNodes

\* Input node tables.  A table of `size` slots holds one node per entry of
\* `kinds` and zero slots after them; the data of the nodes follows in table
\* order.  Every field has the value the assertions ask for, except the ones
\* the parameters set.
NodeName_pack(name) ==
    [k \in 1..36 |-> IF k <= Len(name) THEN name[k]
                     ELSE IF k = Len(name) + 1 THEN 0
                     ELSE IF k <= Len(DEFAULT_NODE_NAME) THEN DEFAULT_NODE_NAME[k]
                     ELSE 0]
KindName(kind) ==
    CASE kind = NodeType_World -> NameWorld
      [] kind = NodeType_Window -> NameWindow
      [] kind = NodeType_Camera -> NameCamera
      [] kind = NodeType_Display -> NameDisplay
      [] OTHER -> <<101>>
MinusOne32 == <<255, 255, 255, 255>>
NodeInfo_pack(kind, name) ==
    LET empty == kind = NodeType_Empty
        world == kind = NodeType_World
    IN  NodeName_pack(name)
        \o UINT32_pack(IF empty THEN NODE_FLAG_BASE ELSE NODE_FLAG_DEFAULT)
        \o UINT32_pack(0) \o UINT32_pack(IF empty THEN 1 ELSE 0) \o UINT32_pack(ZONE_DEFAULT)
        \o UINT32_pack(kind) \o UINT32_pack(IF empty THEN 0 ELSE 1) \o MinusOne32
        \o UINT32_pack(0) \o UINT32_pack(1) \o UINT32_pack(0)
        \o MinusOne32 \o MinusOne32
        \o UINT32_pack(0) \o UINT32_pack(0)
        \o UINT32_pack(IF world THEN 1 ELSE 0) \o UINT32_pack(IF world THEN 1 ELSE 0)
        \o Zeros(16) \o Zeros(72)
        \o Zeros(8) \o UINT32_pack(IF empty THEN 160 ELSE 0) \o Zeros(8)
NodeInfoZero_pack(k, size) ==
    Zeros(60) \o MinusOne32 \o Zeros(144)
        \o UINT32_pack(IF k = size THEN 16777215 ELSE k)

Partition_pack(x, y, unk20, unk32, n) ==
    UINT32_pack(256) \o MinusOne32
        \o FLOAT_pack_int(x) \o FLOAT_pack_int(y) \o FLOAT_pack_int(x)
        \o FLOAT_pack_int(unk20) \o FLOAT_pack_int(y - 256) \o FLOAT_pack_int(x + 256)
        \o FLOAT_pack_int(unk32) \o FLOAT_pack_int(y) \o FLOAT_pack_int(x + 128)
        \o Float_0 \o FLOAT_pack_int(y - 128)
        \o approx_sqrt(FLOAT_pack_quarters(131072 + (unk32 - unk20) * (unk32 - unk20)))
        \o UINT16_pack(0) \o UINT16_pack(n) \o UINT32_pack(IF n = 0 THEN 0 ELSE 1)
        \o Zeros(8)
        \o Concat([k \in 1..n |-> UINT32_pack(k)])

\* The data of a World with the rectangle area = (left, top, right, bottom)
\* and one partition per (x, y) of xs and ys, laid out as
\* _write_node_data_world does; the last partition has the given unk20,
\* unk32 and node count.
World_pack(area, xs, ys, unk20, unk32, n) ==
    LET cells == Len(xs) * Len(ys)
    IN  UINT32_pack(0) \o UINT32_pack(0) \o UINT32_pack(cells) \o UINT32_pack(1)
        \o UINT32_pack(1) \o Zeros(32)
        \o FLOAT_pack_int(area[1]) \o FLOAT_pack_int(area[4])
        \o FLOAT_pack_int(area[3] - area[1]) \o FLOAT_pack_int(area[2] - area[4])
        \o FLOAT_pack_int(area[3]) \o FLOAT_pack_int(area[2])
        \o UINT32_pack(16) \o UINT32_pack(1) \o UINT32_pack(1) \o UINT32_pack(1)
        \o UINT32_pack(Len(xs) - 1) \o UINT32_pack(Len(ys) - 1)
        \o Float_256 \o Negative(Float_256) \o Float_128 \o Negative(Float_128)
        \o Float_inv256 \o Negative(Float_inv256) \o Float_m192
        \o Float_3 \o Float_3
        \o UINT32_pack(Len(xs)) \o UINT32_pack(Len(ys)) \o UINT32_pack(1)
        \o PlusOne \o PlusOne \o PlusOne
        \o UINT32_pack(1) \o UINT32_pack(1) \o UINT32_pack(1) \o Zeros(16)
        \o UINT32_pack(1)
        \o Concat([c \in 1..cells |->
                     LET x == xs[((c - 1) % Len(xs)) + 1]
                         y == ys[((c - 1) \div Len(xs)) + 1]
                     IN  IF c = cells THEN Partition_pack(x, y, unk20, unk32, n)
                         ELSE Partition_pack(x, y, 0, 0, 0)])
WorldPlain == World_pack(<<0, -256, 256, 0>>, <<0>>, <<0>>, 0, 0, 0)
Window_pack ==
    UINT32_pack(0) \o UINT32_pack(0) \o UINT32_pack(320) \o UINT32_pack(200)
        \o Zeros(212) \o MinusOne32 \o Zeros(16)
Display_pack ==
    UINT32_pack(0) \o UINT32_pack(0) \o UINT32_pack(640) \o UINT32_pack(400)
        \o CLEAR_COLOR \o CLEAR_COLOR \o PlusOne
\* clip (1.0, 3.0), fov (1.0, 0.5)
Camera_pack ==
    UINT32_pack(0) \o UINT32_pack(1) \o MinusOne32 \o MinusOne32 \o UINT32_pack(0)
        \o Zeros(24) \o Zeros(132) \o PlusOne \o Float_3 \o Zeros(24)
        \o PlusOne \o PlusOne \o PlusOne \o PlusOne
        \o PlusOne \o Float_half \o PlusOne \o Float_half
        \o Float_half \o <<0, 0, 128, 62>>
        \o UINT32_pack(1) \o Zeros(60) \o UINT32_pack(1) \o Zeros(72)
        \o UINT32_pack(1) \o Zeros(72) \o UINT32_pack(0)
        \o tan_inv(Float_half) \o tan_inv(<<0, 0, 128, 62>>)
        \o UINT32_pack(0) \o UINT32_pack(0) \o <<0, 255, 255, 255>>

\* The data of a node of the given kind, with the children that follow it
NodeData_pack(kind, world) ==
    CASE kind = NodeType_World -> world \o UINT32_pack(1)
      [] kind = NodeType_Window -> Window_pack
      [] kind = NodeType_Camera -> Camera_pack
      [] kind = NodeType_Display -> Display_pack
      [] OTHER -> <<>>
RECURSIVE NodeDataStart(_, _, _, _)
NodeDataStart(kinds, k, size, world) ==
    IF k = 1 THEN (NODE_INFO_size + UINT32_size) * size
    ELSE NodeDataStart(kinds, k - 1, size, world)
            + Len(NodeData_pack(kinds[k - 1], world))
NodesFile(kinds, labels, size, world) ==
    Concat([k \in 1..size |->
              IF k <= Len(kinds)
              THEN NodeInfo_pack(kinds[k], labels[k])
                       \o UINT32_pack(IF kinds[k] = NodeType_Empty THEN 4
                                      ELSE NodeDataStart(kinds, k, size, world))
              ELSE NodeInfoZero_pack(k, size)])
        \o Concat([k \in 1..Len(kinds) |-> NodeData_pack(kinds[k], world)])

NodeKinds == {NodeType_World, NodeType_Window, NodeType_Camera, NodeType_Display,
              NodeType_Empty}
WorldAreas == {<<0, -256, 256, 0>>, <<0, -512, 512, 0>>, <<0, 0, 512, -512>>,
               <<-256, -256, 256, 256>>}
WorldXs == {<<0>>, <<0, 256>>, <<-256, 0>>}
WorldYs == {<<0>>, <<0, -256>>, <<-512, -256>>, <<256, 0>>}

InitNodes ==
    /\ \/ \E n \in 0..MaxNodes : \E kinds \in [1..n -> NodeKinds], spare \in {0, 1, 4} :
             /\ array_size = n + spare
             /\ data = NodesFile(kinds, [k \in 1..n |-> KindName(kinds[k])], n + spare,
                                 WorldPlain)
       \/ \E area \in WorldAreas, xs \in WorldXs, ys \in WorldYs,
             unk20 \in {0, 2}, unk32 \in {0, 4}, n \in 0..1,
             name \in {NameWorld, NameWindow}, tail \in {<<>>, <<0>>} :
             /\ array_size = 2
             /\ data = NodesFile(<<NodeType_World>>, <<name>>, 2,
                                 World_pack(area, xs, ys, unk20, unk32, n)) \o tail
    /\ pc = "read_node_infos"
    /\ offset = 0 /\ prev = 0 /\ slot = 0 /\ nodes = <<>>
    /\ call = <<>> /\ do_stretch = FALSE /\ textures = <<>> /\ count = 0
    /\ entries = <<>> /\ root = <<>> /\ scripts = <<>> /\ motion = <<>>
    /\ materials = <<>> /\ names = {} /\ renames = <<>>
    /\ filetime = Tick(0, 0) /\ write_time = <<>> /\ filetime_out = Tick(0, 0)
    /\ f = <<>> /\ err = ""
    /\ meshes = <<>>
    /\ wrapped_meshes = <<>>
    /\ anim_names = <<>>
    /\ seqdef = <<>>
    /\ sequences = <<>>
    /\ anim_def = <<>>

NextNodes == read_node_info \/ read_node_infos_end \/ read_node_data \/ read_nodes_end

SpecNodes == InitNodes /\ [][NextNodes]_vars

\* The (x, y) of every partition of a decoded World, row by row
WorldCells(world) ==
    [r \in 1..Len(world.partitions) |->
        [c \in 1..Len(world.partitions[r]) |->
            <<world.partitions[r][c].x, world.partitions[r][c].y>>]]
\* The 2x2 grid of scenario S5
S5Cells == <<<<<<0, 0>>, <<256, 0>>>>, <<<<0, -256>>, <<256, -256>>>>>>
\* A node table whose only node is a World with the rectangle
\* area = (left, top, right, bottom) and the four partitions of scenario S5
S5World(area) ==
    NodesFile(<<NodeType_World>>, <<NameWorld>>, 2,
              World_pack(area, <<0, 256>>, <<0, -256>>, 0, 0, 0))
DecodesToS5(area) ==
    /\ pc # "failed"
    /\ pc = "nodes_read" =>
          /\ nodes[1].data.area = area
          /\ WorldCells(nodes[1].data) = S5Cells

\* C16: decoding a World whose rectangle is (left=0, top=-512, right=512,
\* bottom=0) succeeds and yields the 2x2 partition grid (0,0), (256,0),
\* (0,-256), (256,-256); every decoded World has x from left in steps of 256
\* below right and y from bottom in steps of -256 above top.
C16_WorldPartitions ==
    /\ data = S5World(<<0, -512, 512, 0>>) => DecodesToS5(<<0, -512, 512, 0>>)
    /\ \A k \in 1..Len(nodes) :
          nodes[k].data.type = "World" =>
              LET w == nodes[k].data
              IN  /\ Len(w.partitions) = (w.area[4] - w.area[2] + 255) \div 256
                  /\ \A r \in 1..Len(w.partitions) :
                        /\ Len(w.partitions[r]) = (w.area[3] - w.area[1] + 255) \div 256
                        /\ \A c \in 1..Len(w.partitions[r]) :
                              /\ w.partitions[r][c].x = w.area[1] + 256 * (c - 1)
                              /\ w.partitions[r][c].y = w.area[4] - 256 * (r - 1)

C16_Witness ==
    /\ pc = "nodes_read"
    /\ data = S5World(<<0, -512, 512, 0>>)
    /\ WorldCells(nodes[1].data) = S5Cells

\* C16 as stated: decoding a World whose rectangle is (left=0, top=0,
\* right=512, bottom=-512) succeeds and yields the 2x2 partition grid (0,0),
\* (256,0), (0,-256), (256,-256).
C16_WorldPartitionsTopZero ==
    data = S5World(<<0, 0, 512, -512>>) => DecodesToS5(<<0, 0, 512, -512>>)

\* C17: whenever read_nodes succeeds, node 0 is a World named world1, node 1
\* is a Window named window1 and node 2 is a Camera named camera1.
C17_PositionalInvariants ==
    pc = "nodes_read" =>
        /\ Len(nodes) >= 3
        /\ nodes[1].node_type = NodeType_World /\ nodes[1].name = NameWorld
        /\ nodes[2].node_type = NodeType_Window /\ nodes[2].name = NameWindow
        /\ nodes[3].node_type = NodeType_Camera /\ nodes[3].name = NameCamera

(***************************************************************************)
(* Event scripts of the animation definitions (parse/anim)                 *)
(***************************************************************************)
\* struct "<h": a 16-bit signed little-endian integer.
INT16_at(b, off) ==
    b[off + 1] + 256 * (IF b[off + 2] >= 128 THEN b[off + 2] - 256 ELSE b[off + 2])

SCRIPT_HEADER_size == 12
SEQDEF_INFO_size == 64

StartOffset_Unset == 0
StartOffset_Animation == 1

\* OBJECT_REGISTRY_NUM.keys(): the _NUMBER of every ScriptObject subclass
\* that __init_subclass__ has registered.
OBJECT_REGISTRY_NUM ==
    {1, 2, 4, 5, 6, 7, 8, 9, 10, 11, 12, 13, 14, 15, 17, 18, 19, 22, 23, 24, 25, 26, 27,
     28, 30, 31, 32, 33, 34, 35, 36, 41, 42}

CallAnimation_NUMBER == 24
CallAnimation_STRUCT_size == 68
Loop_NUMBER == 30
Loop_STRUCT_size == 8
Else_NUMBER == 32
Endif_NUMBER == 34

\* "INPUT_NODE"
INPUT_NODE == <<73, 78, 80, 85, 84, 95, 78, 79, 68, 69>>
INPUT_NODE_INDEX == 65336

\* with assert_ascii(...): a UnicodeDecodeError raised by the body becomes a
\* Mech3ParseError, any other exception passes through
assert_ascii(r) ==
    IF ~r.ok /\ r.err = "UnicodeDecodeError" THEN Raise("Mech3ParseError") ELSE r

\* AnimDef.get_node(index, offset)
get_node(anim, index) ==
    IF index < 0 \/ index > Len(anim.nodes) - 1 THEN Raise("Mech3ParseError")
    ELSE Ok(anim.nodes[index + 1])

AtNodeShort(node, tx, ty, tz) ==
    [type |-> "AtNodeShort", node |-> node, tx |-> tx, ty |-> ty, tz |-> tz]
AtNodeLong(node, tx, ty, tz, rx, ry, rz) ==
    [type |-> "AtNodeLong", node |-> node, tx |-> tx, ty |-> ty, tz |-> tz,
     rx |-> rx, ry |-> ry, rz |-> rz]

\* CallAnimationFlag: Nothing 0, AtNode 1, Translation 2, Rotation 4, WithNode 8,
\* WaitFor 16. check accepts 0 because the class has a member of value 0
\* (iterating the class yields it on the Python 3.7 and 3.8 of setup.py), and
\* every flag assert_in lets through is made of the five bits.
CallAnimationFlag_call(flag, value) == (value \div flag) % 2 = 1
CallAnimationFlags_and_17 == {0, 1, 3, 7, 8, 10, 16, 17}
CallAnimationFlags == {0, 1, 3, 7, 8, 10, 16}

CallAnimation(name, at_node, with_node, operand_node, wait_for_completion) ==
    [type |-> "CALL_ANIMATION", name |-> name, at_node |-> at_node, with_node |-> with_node,
     operand_node |-> operand_node, wait_for_completion |-> wait_for_completion]

\* CallAnimation.read, on the 68 bytes at p (reader.prev)
CallAnimation_read(b, p, anim) ==
    LET name == assert_ascii(ascii_zterm_padded(SubSeq(b, p + 1, p + 32)))
        operand_index == INT16_at(b, p + 32)
        flag == INT16_at(b, p + 34)
        anim_index == INT16_at(b, p + 36)
        wait_for_completion == INT16_at(b, p + 38)
        node_index == INT32_at(b, p + 40)
        tx == FLOAT_at(b, p + 44)
        ty == FLOAT_at(b, p + 48)
        tz == FLOAT_at(b, p + 52)
        rx == FLOAT_at(b, p + 56)
        ry == FLOAT_at(b, p + 60)
        rz == FLOAT_at(b, p + 64)
        has_at_node == CallAnimationFlag_call(1, flag)
        has_translation == CallAnimationFlag_call(2, flag)
        has_rotation == CallAnimationFlag_call(4, flag)
        has_with_node == CallAnimationFlag_call(8, flag)
        wait_for == CallAnimationFlag_call(16, flag)
        node == IF has_at_node /\ node_index = INPUT_NODE_INDEX THEN Ok(INPUT_NODE)
                ELSE get_node(anim, node_index - 1)
        operand_node == get_node(anim, operand_index - 1)
    IN  IF ~name.ok THEN name
        ELSE IF flag \notin CallAnimationFlags THEN Raise("Mech3ParseError")
        ELSE IF anim_index # 0 THEN Raise("Mech3ParseError")
        ELSE IF IF wait_for
                THEN wait_for_completion < 0 \/ wait_for_completion > anim.anim_refs - 1
                ELSE wait_for_completion # -1
        THEN Raise("Mech3ParseError")
        ELSE IF ~has_translation
                /\ ~(FloatEq(Float_0, tx) /\ FloatEq(Float_0, ty) /\ FloatEq(Float_0, tz))
        THEN Raise("Mech3ParseError")
        ELSE IF ~has_rotation
                /\ ~(FloatEq(Float_0, rx) /\ FloatEq(Float_0, ry) /\ FloatEq(Float_0, rz))
        THEN Raise("Mech3ParseError")
        ELSE IF has_at_node
        THEN IF operand_index # 0 \/ has_with_node THEN Raise("Mech3ParseError")
             ELSE IF ~node.ok THEN node
             ELSE Ok(CallAnimation(name.value,
                                   IF has_rotation
                                   THEN AtNodeLong(node.value, tx, ty, tz, rx, ry, rz)
                                   ELSE AtNodeShort(node.value, tx, ty, tz),
                                   NoData, None, wait_for_completion))
        ELSE IF has_with_node
        THEN IF operand_index # 0 \/ has_rotation THEN Raise("Mech3ParseError")
             ELSE IF ~node.ok THEN node
             ELSE Ok(CallAnimation(name.value, NoData, AtNodeShort(node.value, tx, ty, tz),
                                   None, wait_for_completion))
        ELSE IF operand_index < 1 /\ operand_index # 0 THEN Raise("Mech3ParseError")
        ELSE IF operand_index >= 1 /\ ~operand_node.ok THEN operand_node
        ELSE IF node_index # 0 \/ has_translation \/ has_rotation THEN Raise("Mech3ParseError")
        ELSE Ok(CallAnimation(name.value, NoData, NoData,
                              IF operand_index < 1 THEN None ELSE Some(operand_node.value),
                              wait_for_completion))

\* Loop.read, on the 8 bytes at p
Loop_read(b, p) ==
    IF UINT32_at(b, p) # 1 \/ UINT16_at(b, p + 6) # 0 THEN Raise("Mech3ParseError")
    ELSE Ok([type |-> "LOOP", loop_count |-> INT16_at(b, p + 4)])

\* Else.read and Endif.read take nothing from the reader
Else_read == Ok([type |-> "ELSE"])
Endif_read == Ok([type |-> "ENDIF"])

\* cls._STRUCT.size and cls._NAME of the class registered for stype
STRUCT_size(stype) ==
    CASE stype = CallAnimation_NUMBER -> CallAnimation_STRUCT_size
      [] stype = Loop_NUMBER -> Loop_STRUCT_size
      [] stype = Else_NUMBER -> 0
      [] stype = Endif_NUMBER -> 0
      [] stype = 12 -> 24       \* ObjectMotionSIScript._STRUCT
NAME(stype) ==
    CASE stype = CallAnimation_NUMBER -> "CALL_ANIMATION"
      [] stype = Loop_NUMBER -> "LOOP"
      [] stype = Else_NUMBER -> "ELSE"
      [] stype = Endif_NUMBER -> "ENDIF"
      [] stype = 12 -> "OBJECT_MOTION_SI_SCRIPT"

\* OBJECT_REGISTRY_NUM[stype].read(reader, anim_def), once the payload is read
ScriptObject_read(stype, b, p, anim) ==
    CASE stype = CallAnimation_NUMBER -> CallAnimation_read(b, p, anim)
      [] stype = Loop_NUMBER -> Loop_read(b, p)
      [] stype = Else_NUMBER -> Else_read
      [] stype = Endif_NUMBER -> Endif_read
      [] stype = 12 -> Raise("NotImplementedError")

\* The state of the reader and the outcome when a call returns or raises.
Returned(v, off, pre) == [ok |-> TRUE, value |-> v, err |-> "", offset |-> off, prev |-> pre]
Raised(e, off, pre) == [ok |-> FALSE, value |-> <<>>, err |-> e, offset |-> off, prev |-> pre]

\* The arithmetic of the values 0.0, -0.0, 1.0, -1.0 and NaN.
Float_1 == <<0, 0, 128, 63>>            \* 1.0
Float_m0 == <<0, 0, 0, 128>>            \* -0.0
Float_nan == <<0, 0, 192, 127>>
Float_m1 == <<0, 0, 128, 191>>          \* -1.0
FloatNeg(v) == <<v[1], v[2], v[3], (v[4] + 128) % 256>>
FloatMul(v, w) ==
    IF IsNaN(v) \/ IsNaN(w) THEN Float_nan
    ELSE LET s == (FloatSign(v) + FloatSign(w)) % 2
         IN  CASE IsZero(v) \/ IsZero(w) -> IF s = 1 THEN Float_m0 ELSE Float_0
               [] FloatMagnitude(v) = FloatMagnitude(Float_1)
                    /\ FloatMagnitude(w) = FloatMagnitude(Float_1) ->
                      IF s = 1 THEN Float_m1 ELSE Float_1
FloatAdd(v, w) ==
    IF IsNaN(v) \/ IsNaN(w) THEN Float_nan
    ELSE CASE IsZero(v) /\ IsZero(w) ->
                IF FloatSign(v) = 1 /\ FloatSign(w) = 1 THEN Float_m0 ELSE Float_0
           [] IsZero(v) /\ ~IsZero(w) -> w
           [] ~IsZero(v) /\ IsZero(w) -> v
FloatSub(v, w) == FloatAdd(v, FloatNeg(w))
\* actual >= expected of assert_ge
FloatGe(v, w) == FloatGt(v, w) \/ FloatEq(v, w)

\* OBJECT_MOTION_SI_SCRIPT (parse/anim/object_motion_si_script.py), the one
\* class with a validate_and_read of its own: its payload is a 24-byte
\* struct and `count` frames of 12 bytes, each with 0 to 3 blocks of 19
\* floats.  The blocks of the inputs are zeros.
ObjectMotionSIScript_NUMBER == 12
ObjectMotionSIScript_STRUCT_size == 24
SI_SCRIPT_FRAME_size == 12
SI_SCRIPT_DATA_size == 76
SI_SCRIPT_DATA_floats == 19
MaxSIFrames == 2    \* frames of an input OBJECT_MOTION_SI_SCRIPT record

parse_vec_data(values, current_time) ==
    <<FloatAdd(FloatMul(values[5], current_time), values[1]),
      FloatAdd(FloatMul(values[6], current_time), values[2]),
      FloatAdd(FloatMul(values[7], current_time), values[3])>>
\* magnitude == 0.0 is the case of the inputs
euler_axis_to_quat(x, y, z) ==
    CASE IsZero(x) /\ IsZero(y) /\ IsZero(z) -> <<Float_1, Float_0, Float_0, Float_0>>
quat_rotate(quat, w2, x2, y2, z2) ==
    LET w1 == quat[1]
        x1 == quat[2]
        y1 == quat[3]
        z1 == quat[4]
    IN  <<FloatSub(FloatSub(FloatSub(FloatMul(w1, w2), FloatMul(x1, x2)), FloatMul(y1, y2)),
                   FloatMul(z1, z2)),
          FloatSub(FloatAdd(FloatAdd(FloatMul(y1, z2), FloatMul(w1, x2)), FloatMul(x1, w2)),
                   FloatMul(z1, y2)),
          FloatSub(FloatAdd(FloatAdd(FloatMul(z1, x2), FloatMul(w1, y2)), FloatMul(y1, w2)),
                   FloatMul(x1, z2)),
          FloatSub(FloatAdd(FloatAdd(FloatMul(x1, y2), FloatMul(w1, z2)), FloatMul(z1, w2)),
                   FloatMul(y1, x2))>>
parse_quat_data(values, current_time) ==
    LET v == parse_vec_data(<<Float_0, Float_0, Float_0>> \o SubSeq(values, 4, 19),
                            current_time)
    IN  quat_rotate(euler_axis_to_quat(v[1], v[2], v[3]),
                    values[1], values[2], values[3], values[4])

MotionFrame(start, end, translate, rotate, scale) ==
    [start |-> start, end |-> end, translate |-> translate, rotate |-> rotate,
     scale |-> scale]

\* The blocks of a frame with `flag`, the reader at p: translate for bit 1,
\* rotate for bit 2, scale for bit 4, NoData for None
RECURSIVE read_si_frame_data(_, _, _, _, _, _, _)
read_si_frame_data(b, p, pre, flag, start_time, bit, acc) ==
    IF bit > 4 THEN Returned(acc, p, pre)
    ELSE IF (flag \div bit) % 2 = 0
    THEN read_si_frame_data(b, p, pre, flag, start_time, 2 * bit, Append(acc, NoData))
    ELSE IF unpack_from_pos(b, p, SI_SCRIPT_DATA_size) < 0 THEN Raised("struct.error", p, pre)
    ELSE read_si_frame_data(
             b, p + SI_SCRIPT_DATA_size, p, flag, start_time, 2 * bit,
             Append(acc, IF bit = 2
                         THEN parse_quat_data(FLOATS_at(b, p, SI_SCRIPT_DATA_floats), start_time)
                         ELSE parse_vec_data(FLOATS_at(b, p, SI_SCRIPT_DATA_floats), start_time)))

\* for i in range(count): the frames from the reader at p
RECURSIVE read_si_frames(_, _, _, _, _)
read_si_frame(b, n, acc, start_time, end_time, blocks) ==
    IF ~blocks.ok THEN blocks
    ELSE read_si_frames(b, blocks.offset, blocks.prev, n - 1,
                        Append(acc, MotionFrame(start_time, end_time, blocks.value[1],
                                                blocks.value[2], blocks.value[3])))
read_si_frames(b, p, pre, n, acc) ==
    IF n <= 0 THEN Returned(acc, p, pre)
    ELSE IF unpack_from_pos(b, p, SI_SCRIPT_FRAME_size) < 0
    THEN Raised("struct.error", p, pre)
    ELSE IF ~(1 <= UINT32_at(b, p) /\ UINT32_at(b, p) <= 7)
    THEN Raised("Mech3ParseError", p + SI_SCRIPT_FRAME_size, p)
    ELSE IF ~FloatGe(FLOAT_at(b, p + 4), Float_0)
    THEN Raised("Mech3ParseError", p + SI_SCRIPT_FRAME_size, p)
    ELSE IF ~FloatEq(FLOAT_at(b, p + 8), Float_0)
              /\ ~FloatGe(FLOAT_at(b, p + 8), FLOAT_at(b, p + 4))
    THEN Raised("Mech3ParseError", p + SI_SCRIPT_FRAME_size, p)
    ELSE read_si_frame(b, n, acc, FLOAT_at(b, p + 4), FLOAT_at(b, p + 8),
                       read_si_frame_data(b, p + SI_SCRIPT_FRAME_size, p, UINT32_at(b, p),
                                          FLOAT_at(b, p + 4), 1, <<>>))

\* ObjectMotionSIScript.validate_and_read, the reader at p behind the header
ObjectMotionSIScript_end(index, abs_end, frames) ==
    IF ~frames.ok THEN frames
    ELSE IF abs_end # frames.offset
    THEN Raised("Mech3ParseError", frames.offset, frames.prev)
    ELSE Returned([type |-> "OBJECT_MOTION_SI_SCRIPT", index |-> index,
                   frames |-> frames.value],
                  frames.offset, frames.prev)
ObjectMotionSIScript_validate_and_read(b, p, pre, actual_length) ==
    LET index == INT32_at(b, p)
        at == p + ObjectMotionSIScript_STRUCT_size
    IN  IF unpack_from_pos(b, p, ObjectMotionSIScript_STRUCT_size) < 0
        THEN Raised("struct.error", p, pre)
        ELSE IF ~(0 <= index /\ index <= 20) THEN Raised("Mech3ParseError", at, p)
        ELSE IF ~FloatEq(FLOAT_at(b, p + 8), Float_0) \/ ~FloatEq(FLOAT_at(b, p + 12), Float_0)
        THEN Raised("Mech3ParseError", at, p)
        ELSE IF INT32_at(b, p + 16) # 0 \/ INT32_at(b, p + 20) # 0
        THEN Raised("Mech3ParseError", at, p)
        ELSE ObjectMotionSIScript_end(index, p + actual_length,
                                      read_si_frames(b, at, p, INT32_at(b, p + 4), <<>>))

validate_and_read_any_length(stype, b, p, anim, actual_length) ==
    LET size == STRUCT_size(stype)
        at == p + SCRIPT_HEADER_size
        obj == ScriptObject_read(stype, b, at, anim)
    IN  IF stype = ObjectMotionSIScript_NUMBER
        THEN ObjectMotionSIScript_validate_and_read(b, at, p, actual_length)
        ELSE IF size = 0 THEN Returned(obj.value, at, p)
        ELSE IF unpack_from_pos(b, at, size) < 0 THEN Raised("struct.error", at, p)
        ELSE IF ~obj.ok THEN Raised(obj.err, at + size, at)
        ELSE Returned(obj.value, at + size, at)
\* ScriptObject.validate_and_read, with the reader behind the header at p
validate_and_read(stype, b, p, anim, actual_length) ==
    LET size == STRUCT_size(stype)
        at == p + SCRIPT_HEADER_size
        obj == ScriptObject_read(stype, b, at, anim)
    IN  IF stype = ObjectMotionSIScript_NUMBER
        THEN ObjectMotionSIScript_validate_and_read(b, at, p, actual_length)
        ELSE IF size # actual_length THEN Raised("Mech3ParseError", at, p)
        ELSE IF size = 0 THEN Returned(obj.value, at, p)
        ELSE IF unpack_from_pos(b, at, size) < 0 THEN Raised("struct.error", at, p)
        ELSE IF ~obj.ok THEN Raised(obj.err, at + size, at)
        ELSE Returned(obj.value, at + size, at)

\* assert_in("type", OBJECT_REGISTRY_NUM.keys(), stype, ...): does it pass
assert_in_type_upto(stype) == stype \in 1..42
assert_in_type(stype) == stype \in OBJECT_REGISTRY_NUM

ScriptItem(name, item, start_offset, start_time) ==
    [name |-> name, item |-> item, start_offset |-> start_offset, start_time |-> start_time]

\* One pass of the loop of _parse_script, with the reader at p and its prev
\* at pre
parse_script_item(b, p, pre, anim) ==
    LET stype == b[p + 1]
        start_offset == b[p + 2]
        pad == UINT16_at(b, p + 2)
        size == UINT32_at(b, p + 4)
        start_time == FLOAT_at(b, p + 8)
        at == p + SCRIPT_HEADER_size
        obj == validate_and_read(stype, b, p, anim, size - SCRIPT_HEADER_size)
    IN  IF unpack_from_pos(b, p, SCRIPT_HEADER_size) < 0 THEN Raised("struct.error", p, pre)
        ELSE IF ~assert_in_type(stype) THEN Raised("Mech3ParseError", at, p)
        ELSE IF start_offset \notin {1, 2, 3} THEN Raised("Mech3ParseError", at, p)
        ELSE IF pad # 0 THEN Raised("Mech3ParseError", at, p)
        ELSE IF FloatEq(start_time, Float_0) /\ start_offset # StartOffset_Animation
        THEN Raised("Mech3ParseError", at, p)
        ELSE IF stype \notin OBJECT_REGISTRY_NUM THEN Raised("KeyError", at, p)
        ELSE IF ~obj.ok THEN obj
        ELSE Returned(ScriptItem(NAME(stype), obj.value,
                                 IF FloatEq(start_time, Float_0) THEN StartOffset_Unset
                                 ELSE start_offset,
                                 start_time),
                      obj.offset, obj.prev)

\* _parse_script from the reader at p to its return, `acc` being the items
\* read so far
RECURSIVE parse_script(_, _, _, _, _, _)
parse_script(b, p, pre, abs_end, anim, acc) ==
    IF p < abs_end
    THEN LET r == parse_script_item(b, p, pre, anim)
         IN  IF ~r.ok THEN r
             ELSE parse_script(b, r.offset, r.prev, abs_end, anim, Append(acc, r.value))
    ELSE IF abs_end # p THEN Raised("Mech3ParseError", p, pre)
    ELSE Returned(acc, p, pre)

SeqDef(ptr, activation, items) ==
    [ptr |-> ptr, activation |-> activation, script |-> items]

\* The header of one sequence definition, read at p (prev at pre): what
\* _read_sequence_definitions asserts and keeps of it.
read_seqdef_info(b, p, pre) ==
    LET name == assert_ascii(ascii_zterm_padded(SubSeq(b, p + 1, p + 32)))
        flag == UINT32_at(b, p + 32)
        seqdef_ptr == UINT32_at(b, p + 56)
        seqdef_len == UINT32_at(b, p + 60)
        at == p + SEQDEF_INFO_size
    IN  IF unpack_from_pos(b, p, SEQDEF_INFO_size) < 0 THEN Raised("struct.error", p, pre)
        ELSE IF ~name.ok THEN Raised(name.err, at, p)
        ELSE IF flag \notin {0, 771} THEN Raised("Mech3ParseError", at, p)
        ELSE IF ~AllZero(b, p + 36, p + 56) THEN Raised("Mech3ParseError", at, p)
        ELSE IF ~(seqdef_len > 0) THEN Raised("Mech3ParseError", at, p)
        ELSE IF seqdef_ptr = 0 THEN Raised("Mech3ParseError", at, p)
        ELSE Returned([activation |-> IF flag = 771 THEN "ON_CALL" ELSE "NONE",
                       seqdef_ptr |-> seqdef_ptr,
                       abs_end |-> seqdef_len + at,
                       script |-> <<>>],
                      at, p)

\* _read_sequence_definitions from the reader at p to its return
RECURSIVE read_sequence_definitions(_, _, _, _, _, _)
read_sequence_definitions(b, p, pre, n, anim, acc) ==
    IF n = 0 THEN Returned(acc, p, pre)
    ELSE LET info == read_seqdef_info(b, p, pre)
             items == parse_script(b, info.offset, info.prev, info.value.abs_end, anim, <<>>)
         IN  IF ~info.ok THEN info
             ELSE IF ~items.ok THEN items
             ELSE read_sequence_definitions(
                      b, items.offset, items.prev, n - 1, anim,
                      Append(acc, SeqDef(info.value.seqdef_ptr, info.value.activation,
                                         items.value)))

\* for _ in range(count): the header of the next sequence definition
read_sequence_definition ==
    /\ pc = "read_sequence_definitions"
    /\ Len(sequences) < count
    /\ LET r == read_seqdef_info(data, offset, prev)
       IN  /\ offset' = r.offset
           /\ prev' = r.prev
           /\ IF r.ok
              THEN seqdef' = r.value /\ pc' = "parse_script" /\ err' = err
              ELSE seqdef' = seqdef /\ pc' = "failed" /\ err' = r.err
    /\ UNCHANGED <<data, count, anim_def, sequences>>
    /\ UNCHANGED notScript

\* while reader.offset < abs_end: one record of the script
parse_script_loop ==
    /\ pc = "parse_script"
    /\ offset < seqdef.abs_end
    /\ LET r == parse_script_item(data, offset, prev, anim_def)
       IN  /\ offset' = r.offset
           /\ prev' = r.prev
           /\ IF r.ok
              THEN /\ seqdef' = [seqdef EXCEPT !.script = Append(@, r.value)]
                   /\ pc' = pc /\ err' = err
              ELSE seqdef' = seqdef /\ pc' = "failed" /\ err' = r.err
    /\ UNCHANGED <<data, count, anim_def, sequences>>
    /\ UNCHANGED notScript

\* The end of _parse_script: assert_eq("script end", ...) and the SeqDef
\* that _read_sequence_definitions appends
parse_script_end ==
    /\ pc = "parse_script"
    /\ ~(offset < seqdef.abs_end)
    /\ IF seqdef.abs_end # offset
       THEN pc' = "failed" /\ err' = "Mech3ParseError" /\ sequences' = sequences
       ELSE /\ sequences' = Append(sequences,
                                   SeqDef(seqdef.seqdef_ptr, seqdef.activation, seqdef.script))
            /\ pc' = "read_sequence_definitions" /\ err' = err
    /\ UNCHANGED <<data, offset, prev, count, anim_def, seqdef>>
    /\ UNCHANGED notScript

\* return sequences
read_sequence_definitions_end ==
    /\ pc = "read_sequence_definitions"
    /\ Len(sequences) = count
    /\ pc' = "sequences_read"
    /\ UNCHANGED <<data, offset, prev, count, anim_def, sequences, seqdef, err>>
    /\ UNCHANGED notScript

\* Input sequence definitions, as the structs of the source lay them out.
INT16_pack(n) == <<n % 256, (n \div 256) % 256>>

SCRIPT_HEADER_pack(stype, start_offset, pad, size, start_time) ==
    <<stype, start_offset>> \o INT16_pack(pad) \o UINT32_pack(size) \o start_time
CallAnimation_pack(name, operand_index, flag, anim_index, wait_for_completion, node_index,
                   t, r) ==
    Bytes_pack(name, 32) \o INT16_pack(operand_index) \o INT16_pack(flag)
        \o INT16_pack(anim_index) \o INT16_pack(wait_for_completion) \o INT32_pack(node_index)
        \o t \o t \o t \o r \o r \o r
Loop_pack(start, loop_count, pad) ==
    UINT32_pack(start) \o INT16_pack(loop_count) \o INT16_pack(pad)
SEQDEF_INFO_pack(name, flag, seqdef_ptr, seqdef_len) ==
    Bytes_pack(name, 32) \o UINT32_pack(flag) \o Zeros(20) \o UINT32_pack(seqdef_ptr)
        \o UINT32_pack(seqdef_len)

\* A record: its header, with the size of what follows, and its payload
Record(stype, start_offset, start_time, payload) ==
    SCRIPT_HEADER_pack(stype, start_offset, 0, SCRIPT_HEADER_size + Len(payload), start_time)
        \o payload

\* The CALL_ANIMATION "x" at the first node with no translation (flag 1)
CallAtNode == CallAnimation_pack(<<120>>, 0, 1, 0, -1, 1, Float_0, Float_0)
PlainRecord == Record(CallAnimation_NUMBER, 1, Float_0, CallAtNode)

\* The AnimDef of the inputs: one node "n1", one anim ref
InputAnimDef == [nodes |-> << <<110, 49>> >>, anim_refs |-> 1]

SeqNames == {<<97>>, <<98>>}
\* A sequence definition named `name` with the script `body`
Sequence(name, flag, seqdef_ptr, extra, body) ==
    SEQDEF_INFO_pack(name, flag, seqdef_ptr, Len(body) + extra) \o body
PlainSequence == Sequence(<<97>>, 0, 5, 0, PlainRecord)

\* The records before the last one, and the sequences before the last one
PlainRecords(n) == Concat([k \in 1..n |-> PlainRecord])
PlainSequences(n) == Concat([k \in 1..n |-> PlainSequence])

\* A frame of OBJECT_MOTION_SI_SCRIPT with a block of zeros for each of the
\* bits 1, 2 and 4 of `flag`, and a payload of frames
SIFrame_pack(flag, start_time, end_time) ==
    UINT32_pack(flag) \o start_time \o end_time
        \o Zeros(SI_SCRIPT_DATA_size * ((flag % 2) + ((flag \div 2) % 2) + ((flag \div 4) % 2)))
ObjectMotionSIScript_pack(index, n, frames) ==
    INT32_pack(index) \o INT32_pack(n) \o Zeros(16) \o frames
PlainFrames(n) == Concat([k \in 1..n |-> SIFrame_pack(1, Float_0, Float_0)])

InitScript ==
    /\ \E n \in 1..MaxSequences, m \in 1..MaxRecords, name \in SeqNames :
         \/ \E operand_index \in {0, 1}, flag \in {0, 1, 2, 3, 7, 8, 9, 10, 16, 17},
               wait_for_completion \in {-1, 0}, node_index \in {0, 1, 2, INPUT_NODE_INDEX},
               t \in {Float_0, Float_1}, r \in {Float_0, Float_1} :
              data = PlainSequences(n - 1)
                      \o Sequence(name, 0, 5, 0,
                                  PlainRecords(m - 1)
                                   \o Record(CallAnimation_NUMBER, 1, Float_0,
                                             CallAnimation_pack(<<120>>, operand_index, flag, 0,
                                                                wait_for_completion, node_index,
                                                                t, r)))
         \/ \E stype \in {CallAnimation_NUMBER, 0, 3, 29, 99}, start_offset \in 0..3,
               pad \in {0, 1}, size \in {80, 79, 12},
               start_time \in {Float_0, Float_m0, Float_1} :
              data = PlainSequences(n - 1)
                      \o Sequence(name, 0, 5, 0,
                                  PlainRecords(m - 1)
                                   \o SCRIPT_HEADER_pack(stype, start_offset, pad, size,
                                                         start_time)
                                   \o CallAtNode)
         \/ \E stype \in {Loop_NUMBER, Else_NUMBER, Endif_NUMBER, 29},
               payload \in {<<>>, Loop_pack(1, -1, 0), Loop_pack(0, 2, 0), Loop_pack(1, 2, 1)},
               cut \in {0, 1} :
              data = PlainSequences(n - 1)
                      \o Sequence(name, 0, 5, 0,
                                  PlainRecords(m - 1) \o Record(stype, 2, Float_1, payload))
                      \o (IF cut = 1 THEN <<>> ELSE PlainSequence)
         \/ \E index \in {0, 21}, frames \in 0..MaxSIFrames, more \in {-1, 0, 1},
               flag \in {0, 1, 3, 6, 7, 8}, start_time \in {Float_0, Float_1, Float_m1},
               end_time \in {Float_0, Float_1}, extra \in {0, 12},
               tail \in {<<>>, PlainRecord} :
              \E payload \in {ObjectMotionSIScript_pack(
                                   index, IF more = -1 THEN -1 ELSE frames + more,
                                   PlainFrames(frames - 1)
                                       \o (IF frames = 0 THEN <<>>
                                           ELSE SIFrame_pack(flag, start_time, end_time)))} :
                  /\ name = <<97>> /\ count = n
                  /\ data = PlainSequences(n - 1)
                              \o Sequence(name, 0, 5, 0,
                                          PlainRecords(m - 1)
                                           \o SCRIPT_HEADER_pack(
                                                  ObjectMotionSIScript_NUMBER, 2, 0,
                                                  SCRIPT_HEADER_size + Len(payload) + extra,
                                                  Float_1)
                                           \o payload \o tail)
         \/ \E flag \in {0, 771, 1}, seqdef_ptr \in {5, 0}, extra \in {-1, 0, 1},
               body \in {PlainRecords(m), SubSeq(PlainRecords(m), 1, 80 * m - 1)} :
              data = PlainSequences(n - 1) \o Sequence(name, flag, seqdef_ptr, extra, body)
    /\ \E n \in 1..MaxSequences : count = n
    /\ anim_def = InputAnimDef
    /\ offset = 0 /\ prev = 0
    /\ sequences = <<>>
    /\ seqdef = [activation |-> "NONE", seqdef_ptr |-> 0, abs_end |-> 0, script |-> <<>>]
    /\ pc = "read_sequence_definitions" /\ err = ""
    /\ anim_names = <<>>
    /\ wrapped_meshes = <<>> /\ meshes = <<>>
    /\ array_size = 0 /\ slot = 0 /\ nodes = <<>> /\ call = <<>> /\ do_stretch = FALSE
    /\ textures = <<>> /\ entries = <<>> /\ root = <<>> /\ scripts = <<>> /\ motion = <<>>
    /\ materials = <<>> /\ names = {} /\ renames = <<>>
    /\ filetime = Tick(0, 0) /\ write_time = <<>> /\ filetime_out = Tick(0, 0) /\ f = <<>>

NextScript ==
    read_sequence_definition \/ parse_script_loop \/ parse_script_end
        \/ read_sequence_definitions_end

SpecScript == InitScript /\ [][NextScript]_vars

\* What is left of the parse: the bytes behind the reader, the sequence
\* definitions to come and the steps of the current one
ScriptParseRank ==
    4 * (Len(data) - offset) + 4 * (count - Len(sequences))
        + (CASE pc = "read_sequence_definitions" -> 3
             [] pc = "parse_script" -> 2
             [] OTHER -> 0)

\* C27: parsing an event script announced as seqdef_len bytes ends (every
\* step of the parser lowers a rank that is never negative), and when it
\* succeeds it has consumed exactly seqdef_len bytes; every record read
\* consumes the number of bytes in the size field of its header, which is 12
\* plus the payload size of the opcode's class (for OBJECT_MOTION_SI_SCRIPT,
\* 12 plus its 24-byte struct and its frames).
C27_ScriptConsumption ==
    /\ [][(pc = "read_sequence_definitions" /\ pc' = "parse_script")
            => seqdef'.abs_end = offset' + UINT32_at(data, offset + 60)]_vars
    /\ [][(pc = "parse_script" /\ pc' = "parse_script")
            => /\ offset' - offset = UINT32_at(data, offset + 4)
               /\ IF data[offset + 1] = ObjectMotionSIScript_NUMBER
                  THEN offset' - offset >= SCRIPT_HEADER_size + ObjectMotionSIScript_STRUCT_size
                  ELSE offset' - offset = SCRIPT_HEADER_size + STRUCT_size(data[offset + 1])]_vars
    /\ [][(pc = "parse_script" /\ pc' = "read_sequence_definitions")
            => offset = seqdef.abs_end]_vars
    /\ [][ScriptParseRank' < ScriptParseRank]_vars
    /\ [](ScriptParseRank >= 0)
\* Two sequence definitions are read, the last with an OBJECT_MOTION_SI_SCRIPT
\* of two frames, the second with three blocks, between two CALL_ANIMATION
C27_Witness ==
    /\ pc = "sequences_read"
    /\ Len(sequences) = 2
    /\ offset = Len(data)
    /\ Len(sequences[2].script) = 3
    /\ sequences[2].script[2].name = "OBJECT_MOTION_SI_SCRIPT"
    /\ Len(sequences[2].script[2].item.frames) = 2
    /\ sequences[2].script[2].item.frames[2].translate # NoData
    /\ sequences[2].script[2].item.frames[2].scale # NoData
    /\ sequences[2].script[2].item.frames[2].rotate # NoData

\* The CALL_ANIMATION items decoded so far
CallAnimationsRead ==
    {seqdef.script[k] : k \in {j \in 1..Len(seqdef.script) :
                                  seqdef.script[j].name = "CALL_ANIMATION"}}
        \cup UNION {{sequences[i].script[k] :
                       k \in {j \in 1..Len(sequences[i].script) :
                                 sequences[i].script[j].name = "CALL_ANIMATION"}} :
                    i \in 1..Len(sequences)}
\* How many of AT_NODE, WITH_NODE and OPERAND_NODE a decoded item has
NodesSet(item) ==
    (IF item.at_node # NoData THEN 1 ELSE 0) + (IF item.with_node # NoData THEN 1 ELSE 0)
        + (IF item.operand_node # None THEN 1 ELSE 0)

\* C29: a CALL_ANIMATION record is accepted only if its flag is one of 0, 1,
\* 3, 7, 8, 10 and 16, and every decoded CALL_ANIMATION has at most one of
\* AT_NODE, WITH_NODE and OPERAND_NODE set.
C29_NodeExclusivity ==
    /\ [][(/\ pc = "parse_script" /\ pc' = "parse_script"
           /\ data[offset + 1] = CallAnimation_NUMBER)
          => INT16_at(data, offset + SCRIPT_HEADER_size + 34) \in {0, 1, 3, 7, 8, 10, 16}]_vars
    /\ [](\A i \in CallAnimationsRead : NodesSet(i.item) <= 1)
\* Behind a CALL_ANIMATION with AT_NODE, one with OPERAND_NODE and the flag
\* 16 is decoded
C29_Witness ==
    /\ pc = "sequences_read"
    /\ Len(sequences[Len(sequences)].script) = 2
    /\ \A k \in 1..2 : sequences[Len(sequences)].script[k].name = "CALL_ANIMATION"
    /\ sequences[Len(sequences)].script[1].item.at_node # NoData
    /\ sequences[Len(sequences)].script[2].item.operand_node # None
    /\ sequences[Len(sequences)].script[2].item.at_node = NoData
    /\ sequences[Len(sequences)].script[2].item.with_node = NoData
    /\ sequences[Len(sequences)].script[2].item.wait_for_completion = 0

\* C18: a 12-byte record header whose type id is not in the opcode registry
\* ends the parse with a parse error raised at that header (reader.prev is
\* the header's position); the record is never skipped: nothing is added to
\* the script or to the sequences read so far.
C18_UnknownOpcodeFails ==
    [][(/\ pc = "parse_script"
        /\ offset < seqdef.abs_end
        /\ unpack_from_pos(data, offset, SCRIPT_HEADER_size) >= 0
        /\ data[offset + 1] \notin OBJECT_REGISTRY_NUM)
       => (/\ pc' = "failed"
           /\ err' = "Mech3ParseError"
           /\ prev' = offset
           /\ seqdef' = seqdef
           /\ sequences' = sequences)]_vars
\* An unregistered type id behind a record that was read has failed the parse.
C18_Witness ==
    /\ pc = "failed"
    /\ err = "Mech3ParseError"
    /\ Len(seqdef.script) >= 1
    /\ prev < seqdef.abs_end
    /\ offset = prev + SCRIPT_HEADER_size
    /\ data[prev + 1] \notin OBJECT_REGISTRY_NUM

\* The sequence definitions of scenario S6: one CALL_ANIMATION record with
\* flag = 1, node_index = 1 and translation (0, 0, 0)
S6Sequences ==
    {Sequence(name, flag, 5, 0, PlainRecord) : name \in SeqNames, flag \in {0, 771}}

\* C19: an S6 sequence definition decodes, and re-encoding what was decoded
\* gives back the original bytes. Whatever the encoder, this needs the
\* decoded value to determine the bytes: no other S6 sequence definition
\* may decode to the same value.
C19_S6RoundTrip ==
    (pc = "sequences_read" /\ data \in S6Sequences)
        => \A other \in S6Sequences :
              read_sequence_definitions(other, 0, 0, 1, anim_def, <<>>).value = sequences
                  => other = data

(***************************************************************************)
(* Animation files (parse/anim/read.py): the header, the names, the info   *)
(* block and the zero animation definition, read through a BinReader.      *)
(***************************************************************************)
notAnim == <<meshes, wrapped_meshes, array_size, slot, nodes, call, do_stretch, textures, entries, root, scripts, motion,
             materials, names, renames, filetime, write_time, filetime_out, f, anim_def,
             sequences, seqdef>>

ANIM_SIGNATURE == <<22, 6, 23, 8>>      \* 0x08170616
ANIM_VERSION == 39
GRAVITY == <<205, 204, 28, 193>>        \* -9.800000190734863
ANIM_FILE_HEADER_size == 12
ANIM_NAME_size == 84
ANIM_INFO_size == 68
ANIM_DEF_size == 316
RESET_STATE_size == 64

\* BinReader.read_bytes(length) at p: the bytes and the cursor behind them.
\* The slice is cut at the end of the buffer, the cursor is not.
read_bytes(b, p, length) == Returned(Slice(b, p, p + length), p + length, p)

\* ascii_zterm_partition: the string and what follows its terminator
ascii_zterm_partition(buf) ==
    LET null_index == FindNul(buf)
    IN  IF null_index < 0 THEN Raise("ValueError")
        ELSE IF ~IsAscii(SubSeq(buf, 1, null_index)) THEN Raise("UnicodeDecodeError")
        ELSE Ok([name |-> SubSeq(buf, 1, null_index),
                 pad |-> SubSeq(buf, null_index + 2, Len(buf))])

\* _read_anim_header up to its loop
read_anim_file_header ==
    /\ pc = "read_anim"
    /\ IF unpack_from_pos(data, offset, ANIM_FILE_HEADER_size) < 0
       THEN pc' = "failed" /\ err' = "struct.error" /\ UNCHANGED <<offset, prev, count>>
       ELSE /\ prev' = offset
            /\ offset' = offset + ANIM_FILE_HEADER_size
            /\ IF \/ SubSeq(data, offset + 1, offset + 4) # ANIM_SIGNATURE
                  \/ UINT32_at(data, offset + 4) # ANIM_VERSION
               THEN pc' = "failed" /\ err' = "Mech3ParseError" /\ count' = count
               ELSE /\ count' = UINT32_at(data, offset + 8)
                    /\ pc' = "read_anim_names" /\ err' = err
    /\ UNCHANGED <<data, anim_names>>
    /\ UNCHANGED notAnim

\* for _ in range(count): one ANIM_NAME
read_anim_name ==
    /\ pc = "read_anim_names"
    /\ Len(anim_names) < count
    /\ IF unpack_from_pos(data, offset, ANIM_NAME_size) < 0
       THEN pc' = "failed" /\ err' = "struct.error" /\ UNCHANGED <<offset, prev, anim_names>>
       ELSE LET name == assert_ascii(ascii_zterm_partition(SubSeq(data, offset + 1, offset + 80)))
            IN  /\ prev' = offset
                /\ offset' = offset + ANIM_NAME_size
                /\ IF name.ok
                   THEN /\ anim_names' = Append(anim_names,
                                                [name |-> name.value.name,
                                                 pad |-> name.value.pad,
                                                 unk |-> UINT32_at(data, offset + 80)])
                        /\ pc' = pc /\ err' = err
                   ELSE pc' = "failed" /\ err' = name.err /\ anim_names' = anim_names
    /\ UNCHANGED <<data, count>>
    /\ UNCHANGED notAnim

\* The assertions of _read_anim_info on the ANIM_INFO at p
anim_info_valid(b, p) ==
    /\ UINT32_at(b, p) = 0
    /\ UINT32_at(b, p + 4) = 0
    /\ UINT16_at(b, p + 8) = 0
    /\ UINT16_at(b, p + 10) > 0
    /\ UINT32_at(b, p + 12) # 0
    /\ UINT32_at(b, p + 16) = 0
    /\ UINT32_at(b, p + 20) = 0
    /\ UINT32_at(b, p + 24) # 0
    /\ FLOAT_at(b, p + 28) = GRAVITY
    /\ \A k \in 0..6 : UINT32_at(b, p + 32 + 4 * k) = 0
    /\ UINT32_at(b, p + 60) = 1
    /\ UINT32_at(b, p + 64) = 0

\* _read_anim_info, once the names are read
read_anim_info ==
    /\ pc = "read_anim_names"
    /\ Len(anim_names) = count
    /\ IF unpack_from_pos(data, offset, ANIM_INFO_size) < 0
       THEN pc' = "failed" /\ err' = "struct.error" /\ UNCHANGED <<offset, prev, count>>
       ELSE /\ prev' = offset
            /\ offset' = offset + ANIM_INFO_size
            /\ IF anim_info_valid(data, offset)
               THEN /\ count' = UINT16_at(data, offset + 10)
                    /\ pc' = "read_anim_def_zero" /\ err' = err
               ELSE pc' = "failed" /\ err' = "Mech3ParseError" /\ count' = count
    /\ UNCHANGED <<data, anim_names>>
    /\ UNCHANGED notAnim

\* read_anim_def_zero: data = bytearray(reader.read_bytes(ANIM_DEF.size)) and
\* the assertions on it
read_anim_def_zero_header ==
    /\ pc = "read_anim_def_zero"
    /\ LET r == read_bytes(data, offset, ANIM_DEF_size)
       IN  /\ prev' = r.prev
           /\ offset' = r.offset
           /\ IF Len(r.value) < 154
              THEN pc' = "failed" /\ err' = "IndexError"
              ELSE IF r.value[154] # 3
                      \/ \E k \in 1..Len(r.value) : k # 154 /\ r.value[k] # 0
              THEN pc' = "failed" /\ err' = "Mech3ParseError"
              ELSE pc' = "read_anim_def_zero_reset" /\ err' = err
    /\ UNCHANGED <<data, count, anim_names>>
    /\ UNCHANGED notAnim

\* read_anim_def_zero: bdata = reader.read_bytes(RESET_STATE.size) and the
\* assertion on it
read_anim_def_zero_reset ==
    /\ pc = "read_anim_def_zero_reset"
    /\ LET r == read_bytes(data, offset, RESET_STATE_size)
       IN  /\ prev' = r.prev
           /\ offset' = r.offset
           /\ IF \E k \in 1..Len(r.value) : r.value[k] # 0
              THEN pc' = "failed" /\ err' = "Mech3ParseError"
              ELSE pc' = "read_anim_defs" /\ err' = err
    /\ UNCHANGED <<data, count, anim_names>>
    /\ UNCHANGED notAnim

\* read_anim behind _read_anim_defs, for a file of the zero definition
\* alone (range(1, count) is empty): assert_eq("anim end", ...)
read_anim_end_unchecked ==
    /\ pc = "read_anim_defs"
    /\ count = 1
    /\ pc' = "anim_read" /\ err' = err
    /\ UNCHANGED <<data, offset, prev, count, anim_names>>
    /\ UNCHANGED notAnim
read_anim_end ==
    /\ pc = "read_anim_defs"
    /\ count = 1
    /\ IF Len(data) = offset
       THEN pc' = "anim_read" /\ err' = err
       ELSE pc' = "failed" /\ err' = "Mech3ParseError"
    /\ UNCHANGED <<data, offset, prev, count, anim_names>>
    /\ UNCHANGED notAnim

\* Input animation files: k names, the info block, the zero definition.
AnimName_pack(name, unk) == Bytes_pack(name, 80) \o UINT32_pack(unk)
ANIM_INFO_pack(anim_count, gravity) ==
    UINT32_pack(0) \o UINT32_pack(0) \o UINT16_pack(0) \o UINT16_pack(anim_count)
        \o UINT32_pack(1) \o UINT32_pack(0) \o UINT32_pack(0) \o UINT32_pack(1)
        \o gravity \o Zeros(28) \o UINT32_pack(1) \o UINT32_pack(0)
\* The zero definition: byte 153 of its header, and the last byte of its
\* reset state
AnimDefZero(byte153, last) ==
    [k \in 1..ANIM_DEF_size |-> IF k = 154 THEN byte153 ELSE 0]
        \o [k \in 1..RESET_STATE_size |-> IF k = RESET_STATE_size THEN last ELSE 0]
AnimFile(k, version, anim_count, gravity, byte153, last) ==
    ANIM_SIGNATURE \o UINT32_pack(version) \o UINT32_pack(k)
        \o Concat([j \in 1..k |-> AnimName_pack(<<97>>, j)])
        \o ANIM_INFO_pack(anim_count, gravity)
        \o AnimDefZero(byte153, last)
\* The bytes cut from the end of an input file
AnimCuts == {0, 1, RESET_STATE_size, RESET_STATE_size + 1, 227, 380, 381}

InitAnim ==
    /\ \E k \in 0..MaxAnimNames, version \in {ANIM_VERSION, 38}, anim_count \in {0, 1},
          gravity \in {GRAVITY, Float_0}, byte153 \in {3, 0}, last \in {0, 1},
          cut \in AnimCuts, more \in {<<>>, <<0>>} :
         LET file == AnimFile(k, version, anim_count, gravity, byte153, last)
         IN  data = SubSeq(file, 1, Len(file) - cut) \o more
    /\ pc = "read_anim"
    /\ Idle

\* Input materials entries whose last name is as long as its length says,
\* or shorter
InitCursorMaterials ==
    /\ \E n \in 1..MaxMaterials, extra \in 0..1,
          str \in {UINT32_pack(0), UINT32_pack(1) \o <<116>>, UINT32_pack(1),
                   UINT32_pack(2) \o <<116>>, UINT32_pack(3) \o <<116, 116>>} :
         data = UINT32_pack(n + extra)
                 \o Concat([k \in 1..n |->
                              IF k = n
                              THEN MaterialInput_pack(255, 17, 32767, Float_255, 1, Float_0)
                                       \o str
                              ELSE MaterialPlain])
    /\ pc = "read_materials"
    /\ Idle

InitCursor == InitCursorMaterials \/ InitAnim

NextCursor ==
    \/ read_materials_count
    \/ read_material
    \/ read_materials_end
    \/ read_anim_file_header
    \/ read_anim_name
    \/ read_anim_info
    \/ read_anim_def_zero_header
    \/ read_anim_def_zero_reset
    \/ read_anim_end

SpecCursor == InitCursor /\ [][NextCursor]_vars

\* The parse has returned: read_materials is exhausted, read_anim is at its
\* return
ParseSucceeded == pc \in {"write_materials", "anim_read"}

\* C20: in a successful parse the cursor never passes the end of the buffer:
\* once a BinReader operation has left offset > len(data), the parse does not
\* succeed. (read and read_u32 raise struct.error instead of passing the
\* end; read_bytes and read_string do pass it.)
C20_CursorBound == [](offset > Len(data) => [](~ParseSucceeded))
\* A parse that called read_string, or read_bytes, has succeeded.
C20_Witness ==
    /\ ParseSucceeded
    /\ offset = Len(data)
    /\ \/ \E k \in 1..Len(materials) : materials[k].name.some
       \/ pc = "anim_read"

(***************************************************************************)
(* Every parser that drives a BinReader, side by side.                     *)
(***************************************************************************)
InitBinReader ==
    \/ InitArchive
    \/ InitCursor
    \/ InitTextures
    \/ InitNodes
    \/ InitScript

NextBinReader ==
    \/ NextArchive
    \/ NextCursor
    \/ NextTextures
    \/ NextNodes
    \/ NextScript

SpecBinReader == InitBinReader /\ [][NextBinReader]_vars

\* C21: apart from read_archive setting the cursor to the footer and then to
\* the start of the table of contents (both in its first step), no step of
\* any parser decreases the reader's offset.
C21_SequentialReads == [][pc # "read_archive" => offset' >= offset]_vars
\* A parse has moved the cursor at least twice and is still reading forward.
C21_Witness ==
    /\ pc \in {"read_entry", "read_anim_names", "read_node_data", "parse_script"}
    /\ 0 < prev /\ prev < offset

(***************************************************************************)
(* Meshes and polygons (parse/model3d.py, parse/gamez/model3d.py)          *)
(*                                                                         *)
(* The readers below take the buffer b, the reader's offset p and its prev *)
(* pre, and give Returned(value, offset, prev) or Raised(class, offset,    *)
(* prev).  The 32-bit fields of the inputs stay below 2^31, except         *)
(* texture_info, which is kept as its four bytes.                          *)
(***************************************************************************)
VEC2_size == 8
VEC3_size == 12
MESH_size == 92
POLYGON_size == 36
MESH_LIGHT_size == 76
MESHES_HEADER_size == 12
SINT32_size == 4

\* n calls of reader.read(struct), size bytes each, one after the other:
\* the value is the offset of the first
read_structs(b, p, pre, n, size) ==
    LET got == Min(n, (Len(b) - p) \div size)
        at == IF got = 0 THEN pre ELSE p + size * (got - 1)
    IN  IF got < n THEN Raised("struct.error", p + size * got, at)
        ELSE Returned(p, p + size * got, at)

\* arrays == <<<<n, size>>, ...>> read one after the other: the value is the
\* offsets at which the arrays start
RECURSIVE read_arrays(_, _, _, _, _)
read_arrays_from(b, arrays, starts, r) ==
    IF ~r.ok THEN r
    ELSE read_arrays(b, r.offset, r.prev, Tail(arrays), Append(starts, r.value))
read_arrays(b, p, pre, arrays, starts) ==
    IF arrays = <<>> THEN Returned(starts, p, pre)
    ELSE read_arrays_from(b, arrays, starts,
                          read_structs(b, p, pre, arrays[1][1], arrays[1][2]))

UINT32S_at(b, p, n) == [k \in 1..n |-> UINT32_at(b, p + UINT32_size * (k - 1))]
VEC3_at(b, p) == <<FLOAT_at(b, p), FLOAT_at(b, p + 4), FLOAT_at(b, p + 8)>>
VEC3S_at(b, p, n) == [k \in 1..n |-> VEC3_at(b, p + VEC3_size * (k - 1))]

\* 1.0 - v, for the texture coordinates of the inputs
one_minus(v) ==
    CASE IsZero(v) -> PlusOne
      [] v = PlusOne -> Float_0
      [] v = Float_half -> Float_half

\* [reader.read(VEC3) for _ in range(count)]
read_vec3s(b, p, pre, n) ==
    IF read_structs(b, p, pre, n, VEC3_size).ok
    THEN Returned(VEC3S_at(b, p, n), p + VEC3_size * n,
                  IF n = 0 THEN pre ELSE p + VEC3_size * (n - 1))
    ELSE read_structs(b, p, pre, n, VEC3_size)

\* The fields of reader.read(POLYGON) at p
PolygonInfo(b, p) ==
    [vertex_info |-> UINT32_at(b, p), unk04 |-> UINT32_at(b, p + 4),
     vertex_ptr |-> UINT32_at(b, p + 8), normal_ptr |-> UINT32_at(b, p + 12),
     uv_ptr |-> UINT32_at(b, p + 16), color_ptr |-> UINT32_at(b, p + 20),
     unk_ptr |-> UINT32_at(b, p + 24), texture_index |-> UINT32_at(b, p + 28),
     texture_info |-> SubSeq(b, p + 33, p + 36)]
verts_in_poly(i) == i.vertex_info % 256
unk_bit(i) == (i.vertex_info \div 256) % 2 = 1
vtx_bit(i) == (i.vertex_info \div 512) % 2 = 1
has_normals(i) == vtx_bit(i) /\ i.normal_ptr # 0
has_uvs(i) == i.uv_ptr # 0

\* The assertions of _read_polygons of parse/gamez/model3d.py on one polygon
gamez_polygon_valid(i) ==
    /\ i.vertex_info < 1023
    /\ 0 <= i.unk04 /\ i.unk04 <= 20
    /\ verts_in_poly(i) > 0
    /\ i.vertex_ptr # 0
    /\ i.color_ptr # 0
    /\ i.unk_ptr # 0
\* The assertions of _read_polygons of parse/model3d.py on one polygon
TEXTURE_INFO_MECHLIB == <<0, 255, 255, 255>>
polygon_valid(i) ==
    /\ i.vertex_info < 1023
    /\ i.unk04 \in {0, 1}
    /\ verts_in_poly(i) > 0
    /\ i.vertex_ptr # 0
    /\ i.color_ptr # 0
    /\ i.unk_ptr # 0
    /\ i.texture_info = TEXTURE_INFO_MECHLIB

\* The Polygon of the second loop of _read_polygons: the header fields i and
\* the four arrays, which start at the offsets at[1..4]
Polygon(b, i, at) ==
    [vertex_indices |-> UINT32S_at(b, at[1], verts_in_poly(i)),
     normal_indices |-> IF has_normals(i) THEN UINT32S_at(b, at[2], verts_in_poly(i))
                        ELSE <<>>,
     uv_coords |-> IF has_uvs(i)
                   THEN [k \in 1..verts_in_poly(i) |->
                           <<FLOAT_at(b, at[3] + VEC2_size * (k - 1)),
                             one_minus(FLOAT_at(b, at[3] + VEC2_size * (k - 1) + 4))>>]
                   ELSE <<>>,
     vertex_colors |-> VEC3S_at(b, at[4], verts_in_poly(i)),
     texture_index |-> i.texture_index, texture_info |-> i.texture_info,
     unk04 |-> i.unk04, unk_bit |-> unk_bit(i), vtx_bit |-> vtx_bit(i),
     vertex_ptr |-> i.vertex_ptr, normal_ptr |-> i.normal_ptr, uv_ptr |-> i.uv_ptr,
     color_ptr |-> i.color_ptr, unk_ptr |-> i.unk_ptr]

\* The arrays the second loop of _read_polygons reads for the polygon at p
polygon_arrays(b, p) ==
    <<<<verts_in_poly(PolygonInfo(b, p)), UINT32_size>>,
      <<IF has_normals(PolygonInfo(b, p)) THEN verts_in_poly(PolygonInfo(b, p)) ELSE 0,
        UINT32_size>>,
      <<IF has_uvs(PolygonInfo(b, p)) THEN verts_in_poly(PolygonInfo(b, p)) ELSE 0,
        VEC2_size>>,
      <<verts_in_poly(PolygonInfo(b, p)), VEC3_size>>>>

\* The second loop of _read_polygons, over the count polygon headers at p
read_polygon_data(b, p, n, r) ==
    IF ~r.ok THEN r
    ELSE Returned([k \in 1..n |->
                     Polygon(b, PolygonInfo(b, p + POLYGON_size * (k - 1)),
                             SubSeq(r.value, 4 * k - 3, 4 * k))],
                  r.offset, r.prev)

\* _read_polygons(reader, n): `bad` holds the polygons, of those whose header
\* can be read, that fail an assertion
polygons_got(b, p, n) == Min(n, (Len(b) - p) \div POLYGON_size)
read_polygons_from(b, p, pre, n, bad) ==
    LET k0 == CHOOSE k \in bad : \A j \in bad : k <= j
    IN  IF bad # {}
        THEN Raised("Mech3ParseError", p + POLYGON_size * k0, p + POLYGON_size * (k0 - 1))
        ELSE IF polygons_got(b, p, n) < n THEN read_structs(b, p, pre, n, POLYGON_size)
        ELSE read_polygon_data(b, p, n,
                 read_arrays(b, p + POLYGON_size * n,
                             IF n = 0 THEN pre ELSE p + POLYGON_size * (n - 1),
                             Concat([k \in 1..n |->
                                       polygon_arrays(b, p + POLYGON_size * (k - 1))]),
                             <<>>))
\* _read_polygons of parse/gamez/model3d.py
gamez_read_polygons(b, p, pre, n) ==
    read_polygons_from(b, p, pre, n,
        {k \in 1..polygons_got(b, p, n) :
           ~gamez_polygon_valid(PolygonInfo(b, p + POLYGON_size * (k - 1)))})
\* _read_polygons of parse/model3d.py
read_polygons(b, p, pre, n) ==
    read_polygons_from(b, p, pre, n,
        {k \in 1..polygons_got(b, p, n) :
           ~polygon_valid(PolygonInfo(b, p + POLYGON_size * (k - 1)))})

\* The fields of reader.read(MESH) at p
MeshInfo(b, p) ==
    [file_ptr |-> UINT32_at(b, p), zero04 |-> UINT32_at(b, p + 4),
     unk08 |-> UINT32_at(b, p + 8), has_parents |-> UINT32_at(b, p + 12),
     polygon_count |-> UINT32_at(b, p + 16), vertex_count |-> UINT32_at(b, p + 20),
     normal_count |-> UINT32_at(b, p + 24), morph_count |-> UINT32_at(b, p + 28),
     light_count |-> UINT32_at(b, p + 32), zero36 |-> UINT32_at(b, p + 36),
     unk40 |-> UINT32_at(b, p + 40), unk44 |-> UINT32_at(b, p + 44),
     zero48 |-> UINT32_at(b, p + 48), polygon_ptr |-> UINT32_at(b, p + 52),
     vertex_ptr |-> UINT32_at(b, p + 56), normal_ptr |-> UINT32_at(b, p + 60),
     light_ptr |-> UINT32_at(b, p + 64), morph_ptr |-> UINT32_at(b, p + 68),
     unk72 |-> UINT32_at(b, p + 72), unk76 |-> UINT32_at(b, p + 76),
     unk80 |-> UINT32_at(b, p + 80), unk84 |-> UINT32_at(b, p + 84),
     zero88 |-> UINT32_at(b, p + 88)]

\* The assertions of _read_mesh_info of parse/gamez/model3d.py
gamez_mesh_info_valid(i) ==
    /\ i.file_ptr \in {0, 1}
    /\ i.zero04 \in {0, 1}
    /\ i.has_parents > 0
    /\ i.zero36 = 0
    /\ i.zero48 = 0
    /\ IF i.polygon_count = 0
       THEN /\ i.polygon_ptr = 0
            /\ i.vertex_count = 0 /\ i.normal_count = 0 /\ i.morph_count = 0
            /\ i.light_count > 0
       ELSE i.polygon_ptr # 0
    /\ (i.vertex_count = 0) = (i.vertex_ptr = 0)
    /\ (i.normal_count = 0) = (i.normal_ptr = 0)
    /\ (i.light_count = 0) = (i.light_ptr = 0)
    /\ (i.morph_count = 0) = (i.morph_ptr = 0)
    /\ i.zero88 = 0

\* Mesh(...): the header fields i with the arrays of the body
Mesh(i, vertices, normals, morphs, lights, polygons) ==
    [vertices |-> vertices, normals |-> normals, morphs |-> morphs, lights |-> lights,
     polygons |-> polygons, polygon_ptr |-> i.polygon_ptr, vertex_ptr |-> i.vertex_ptr,
     normal_ptr |-> i.normal_ptr, light_ptr |-> i.light_ptr, morph_ptr |-> i.morph_ptr,
     file_ptr |-> i.file_ptr, zero04 |-> i.zero04, has_parents |-> i.has_parents,
     unk08 |-> i.unk08, unk40 |-> i.unk40, unk44 |-> i.unk44, unk72 |-> i.unk72,
     unk76 |-> i.unk76, unk80 |-> i.unk80, unk84 |-> i.unk84]

\* _read_lights(reader, count): count 76-byte records, then the extra
\* vectors of each.  The fields of a record other than extra_count (at 12)
\* are kept as the bytes read.
read_light_extras(b, p, n, r) ==
    IF ~r.ok THEN r
    ELSE Returned([k \in 1..n |->
                     [fields |-> SubSeq(b, p + MESH_LIGHT_size * (k - 1) + 1,
                                        p + MESH_LIGHT_size * k),
                      extra |-> VEC3S_at(b, r.value[k],
                                         UINT32_at(b, p + MESH_LIGHT_size * (k - 1) + 12))]],
                  r.offset, r.prev)
read_lights(b, p, pre, n) ==
    IF ~read_structs(b, p, pre, n, MESH_LIGHT_size).ok
    THEN read_structs(b, p, pre, n, MESH_LIGHT_size)
    ELSE read_light_extras(b, p, n,
             read_arrays(b, p + MESH_LIGHT_size * n,
                         IF n = 0 THEN pre ELSE p + MESH_LIGHT_size * (n - 1),
                         [k \in 1..n |->
                            <<UINT32_at(b, p + MESH_LIGHT_size * (k - 1) + 12), VEC3_size>>],
                         <<>>))

\* _read_mesh_data(reader, wrapped_mesh) for the mesh info i: the vertex,
\* normal and morph arrays start at the offsets at[1..3]
read_mesh_polygons(b, i, at, lights, r) ==
    IF ~r.ok THEN r
    ELSE Returned(Mesh(i, VEC3S_at(b, at[1], i.vertex_count),
                       VEC3S_at(b, at[2], i.normal_count),
                       VEC3S_at(b, at[3], i.morph_count), lights, r.value),
                  r.offset, r.prev)
read_mesh_lights(b, i, at, l) ==
    IF ~l.ok THEN l
    ELSE read_mesh_polygons(b, i, at, l.value,
                            gamez_read_polygons(b, l.offset, l.prev, i.polygon_count))
read_mesh_vectors(b, i, r) ==
    IF ~r.ok THEN r
    ELSE read_mesh_lights(b, i, r.value, read_lights(b, r.offset, r.prev, i.light_count))
read_mesh_data_at(b, p, pre, i) ==
    read_mesh_vectors(b, i,
        read_arrays(b, p, pre, <<<<i.vertex_count, VEC3_size>>, <<i.normal_count, VEC3_size>>,
                                 <<i.morph_count, VEC3_size>>>>, <<>>))

\* _read_mesh_zero(reader, mesh_count, array_size), from slot i
RECURSIVE read_mesh_zero(_, _, _, _, _)
read_mesh_zero(b, p, pre, i, size) ==
    IF i >= size THEN Returned(<<>>, p, pre)
    ELSE IF unpack_from_pos(b, p, MESH_size) < 0 THEN Raised("struct.error", p, pre)
    ELSE IF \E k \in 1..MESH_size : b[p + k] # 0
    THEN Raised("Mech3ParseError", p + MESH_size, p)
    ELSE IF unpack_from_pos(b, p + MESH_size, SINT32_size) < 0
    THEN Raised("struct.error", p + MESH_size, p)
    ELSE IF INT32_at(b, p + MESH_size) # (IF i + 1 = size THEN -1 ELSE i + 1)
    THEN Raised("Mech3ParseError", p + MESH_size + SINT32_size, p + MESH_size)
    ELSE read_mesh_zero(b, p + MESH_size + SINT32_size, p + MESH_size, i + 1, size)

\* assert_between(name, expected_low, expected_high, actual, location)
assert_between_low(expected_low, expected_high, actual) == expected_low <= actual
assert_between(expected_low, expected_high, actual) ==
    expected_low <= actual /\ actual <= expected_high

\* read_meshes(reader, start_offset, end_offset): the header
read_meshes_header ==
    /\ pc = "read_meshes"
    /\ IF unpack_from_pos(data, offset, MESHES_HEADER_size) < 0
       THEN /\ pc' = "failed" /\ err' = "struct.error"
            /\ UNCHANGED <<offset, prev, array_size, count>>
       ELSE /\ prev' = offset
            /\ offset' = offset + MESHES_HEADER_size
            /\ array_size' = UINT32_at(data, offset)
            /\ count' = UINT32_at(data, offset + 4)
            /\ IF /\ UINT32_at(data, offset + 4) <= UINT32_at(data, offset)
                  /\ UINT32_at(data, offset + 8) <= UINT32_at(data, offset + 4)
               THEN pc' = "read_mesh_infos" /\ err' = ""
               ELSE pc' = "failed" /\ err' = "Mech3ParseError"
    /\ UNCHANGED <<data, call, wrapped_meshes, meshes>>
    /\ UNCHANGED notMeshes

\* The first loop of read_meshes, one mesh: its info and the offset of its
\* body
read_mesh_info ==
    /\ pc = "read_mesh_infos"
    /\ Len(wrapped_meshes) < count
    /\ LET prev_offset == IF wrapped_meshes = <<>> THEN call.start_offset
                          ELSE wrapped_meshes[Len(wrapped_meshes)].mesh_offset
           at == offset + MESH_size
       IN  IF unpack_from_pos(data, offset, MESH_size) < 0
           THEN /\ pc' = "failed" /\ err' = "struct.error"
                /\ UNCHANGED <<offset, prev, wrapped_meshes>>
           ELSE IF ~gamez_mesh_info_valid(MeshInfo(data, offset))
           THEN /\ pc' = "failed" /\ err' = "Mech3ParseError"
                /\ offset' = at /\ prev' = offset
                /\ UNCHANGED wrapped_meshes
           ELSE IF unpack_from_pos(data, at, UINT32_size) < 0
           THEN /\ pc' = "failed" /\ err' = "struct.error"
                /\ offset' = at /\ prev' = offset
                /\ UNCHANGED wrapped_meshes
           ELSE /\ offset' = at + UINT32_size /\ prev' = at
                /\ IF assert_between(prev_offset, call.end_offset, UINT32_at(data, at))
                   THEN /\ wrapped_meshes' =
                              Append(wrapped_meshes,
                                     [i |-> Len(wrapped_meshes),
                                      mesh_offset |-> UINT32_at(data, at),
                                      wrapped_mesh |-> MeshInfo(data, offset)])
                        /\ UNCHANGED <<pc, err>>
                   ELSE /\ pc' = "failed" /\ err' = "Mech3ParseError"
                        /\ UNCHANGED wrapped_meshes
    /\ UNCHANGED <<data, call, array_size, count, meshes>>
    /\ UNCHANGED notMeshes

\* The first loop is over: _read_mesh_zero reads the free slots of the table
read_mesh_infos_end ==
    /\ pc = "read_mesh_infos"
    /\ Len(wrapped_meshes) = count
    /\ \E r \in {read_mesh_zero(data, offset, prev, count, array_size)} :
          /\ offset' = r.offset /\ prev' = r.prev
          /\ IF r.ok THEN pc' = "read_mesh_data" /\ err' = ""
             ELSE pc' = "failed" /\ err' = r.err
    /\ UNCHANGED <<data, call, array_size, count, wrapped_meshes, meshes>>
    /\ UNCHANGED notMeshes

\* The last loop of read_meshes, one mesh: its body, which starts where the
\* table said
read_mesh_data ==
    /\ pc = "read_mesh_data"
    /\ Len(meshes) < Len(wrapped_meshes)
    /\ IF wrapped_meshes[Len(meshes) + 1].mesh_offset # offset
       THEN /\ pc' = "failed" /\ err' = "Mech3ParseError"
            /\ UNCHANGED <<offset, prev, meshes>>
       ELSE \E r \in {read_mesh_data_at(data, offset, prev,
                                        wrapped_meshes[Len(meshes) + 1].wrapped_mesh)} :
               /\ offset' = r.offset /\ prev' = r.prev
               /\ IF r.ok THEN meshes' = Append(meshes, r.value) /\ UNCHANGED <<pc, err>>
                  ELSE pc' = "failed" /\ err' = r.err /\ UNCHANGED meshes
    /\ UNCHANGED <<data, call, array_size, count, wrapped_meshes>>
    /\ UNCHANGED notMeshes

\* read_meshes returns array_size and the meshes
read_meshes_end ==
    /\ pc = "read_mesh_data"
    /\ Len(meshes) = Len(wrapped_meshes)
    /\ pc' = "meshes_read"
    /\ UNCHANGED <<data, offset, prev, call, array_size, count, wrapped_meshes, meshes, err>>
    /\ UNCHANGED notMeshes

\* Input mesh tables.  A mesh is <<polygon_count, vertex_count, light_count,
\* extra_count, vertex_info, normal_ptr, uv_ptr>>: every other field has the
\* value the assertions ask for, the pointers are 1 where the count is not 0.
MeshInfo_pack(m) ==
    Concat([k \in 1..23 |->
              UINT32_pack(CASE k = 4 -> 1
                            [] k = 5 -> m[1]
                            [] k = 6 -> m[2]
                            [] k = 9 -> m[3]
                            [] k = 14 -> IF m[1] = 0 THEN 0 ELSE 1
                            [] k = 15 -> IF m[2] = 0 THEN 0 ELSE 1
                            [] k = 17 -> IF m[3] = 0 THEN 0 ELSE 1
                            [] OTHER -> 0)])
Polygon_pack(vertex_info, unk04, normal_ptr, uv_ptr, texture_info) ==
    UINT32_pack(vertex_info) \o UINT32_pack(unk04) \o UINT32_pack(1)
        \o UINT32_pack(normal_ptr) \o UINT32_pack(uv_ptr) \o UINT32_pack(1)
        \o UINT32_pack(1) \o UINT32_pack(0) \o texture_info
PolygonBody_pack(vertex_info, normal_ptr, uv_ptr) ==
    Zeros(UINT32_size * (vertex_info % 256))
        \o (IF (vertex_info \div 512) % 2 = 1 /\ normal_ptr # 0
            THEN Zeros(UINT32_size * (vertex_info % 256)) ELSE <<>>)
        \o (IF uv_ptr # 0
            THEN Concat([k \in 1..(vertex_info % 256) |-> Float_half \o PlusOne])
            ELSE <<>>)
        \o Zeros(VEC3_size * (vertex_info % 256))
MeshBody_pack(m) ==
    Zeros(VEC3_size * m[2])
        \o (IF m[3] = 0 THEN <<>>
            ELSE Zeros(12) \o UINT32_pack(m[4]) \o Zeros(MESH_LIGHT_size - 16)
                     \o Zeros(VEC3_size * m[4]))
        \o (IF m[1] = 0 THEN <<>>
            ELSE Polygon_pack(m[5], 0, m[6], m[7], <<1, 1, 255, 255>>)
                     \o PolygonBody_pack(m[5], m[6], m[7]))
LightMesh == <<0, 0, 1, 0, 0, 0, 0>>
InputMeshKinds ==
    {LightMesh, <<0, 0, 1, 1, 0, 0, 0>>, <<0, 0, 0, 0, 0, 0, 0>>, <<0, 1, 1, 0, 0, 0, 0>>,
     <<1, 1, 0, 0, 1, 0, 0>>, <<1, 0, 0, 0, 513, 1, 1>>, <<1, 0, 1, 0, 2, 1, 0>>,
     <<1, 0, 0, 0, 0, 0, 0>>, <<1, 0, 0, 0, 1023, 0, 0>>}
\* The offset of the body of mesh k of ms behind a table of `size` slots
MeshOffset(ms, size, k) ==
    MESHES_HEADER_size + (MESH_size + UINT32_size) * size
        + Len(Concat([j \in 1..(k - 1) |-> MeshBody_pack(ms[j])]))
\* A table of `size` slots for the meshes ms; shift is added to the offset
\* of the last mesh, and the last free slot has the next index `last`
MeshTable(ms, size, shift, last) ==
    UINT32_pack(size) \o UINT32_pack(Len(ms)) \o UINT32_pack(Len(ms))
        \o Concat([k \in 1..Len(ms) |->
                     MeshInfo_pack(ms[k])
                         \o UINT32_pack(MeshOffset(ms, size, k)
                                          + (IF k = Len(ms) THEN shift ELSE 0))])
        \o Concat([k \in 1..(size - Len(ms)) |->
                     Zeros(MESH_size)
                         \o (IF Len(ms) + k = size THEN INT32_pack(last)
                             ELSE INT32_pack(Len(ms) + k))])
        \o Concat([k \in 1..Len(ms) |-> MeshBody_pack(ms[k])])

InitMeshes ==
    /\ \E n \in 0..MaxMeshes, kind \in InputMeshKinds, free \in {0, 1},
          shift \in {0, 1, -MESH_LIGHT_size}, last \in {-1, 0},
          cut \in {0, 1}, start \in {0, 1}, end \in {-2, -1, 0} :
          LET ms == [k \in 1..n |-> IF k = n THEN kind ELSE LightMesh]
              table == MeshTable(ms, n + free, shift, last)
          IN  /\ data = SubSeq(table, 1, Len(table) - cut)
              /\ call = [start_offset |-> IF start = 0 THEN 0
                                          ELSE MeshOffset(ms, n + free, 1) + 1,
                         end_offset |-> MeshOffset(ms, n + free, n) + end]
    /\ pc = "read_meshes"
    /\ wrapped_meshes = <<>> /\ meshes = <<>>
    /\ offset = 0 /\ prev = 0 /\ count = 0 /\ array_size = 0 /\ err = ""
    /\ anim_names = <<>> /\ seqdef = <<>> /\ sequences = <<>> /\ anim_def = <<>>
    /\ slot = 0 /\ nodes = <<>> /\ do_stretch = FALSE /\ textures = <<>>
    /\ entries = <<>> /\ root = <<>> /\ scripts = <<>> /\ motion = <<>>
    /\ materials = <<>> /\ names = {} /\ renames = <<>>
    /\ filetime = Tick(0, 0) /\ write_time = <<>> /\ filetime_out = Tick(0, 0) /\ f = <<>>

NextMeshes ==
    \/ read_meshes_header
    \/ read_mesh_info
    \/ read_mesh_infos_end
    \/ read_mesh_data
    \/ read_meshes_end

SpecMeshes == InitMeshes /\ [][NextMeshes]_vars

\* C22: when read_meshes returns, the offsets of the mesh bodies read from
\* the table are strictly increasing in table order and each is below the
\* node offset, which is end_offset + 1 (read_gamez passes node_offset - 1).
C22_MeshOffsets ==
    pc = "meshes_read" =>
        /\ \A j, k \in 1..Len(wrapped_meshes) :
              j < k => wrapped_meshes[j].mesh_offset < wrapped_meshes[k].mesh_offset
        /\ \A k \in 1..Len(wrapped_meshes) :
              wrapped_meshes[k].mesh_offset < call.end_offset + 1
\* A table of two meshes was accepted.
C22_Witness ==
    /\ pc = "meshes_read"
    /\ Len(meshes) = 2
    /\ Len(wrapped_meshes) = 2

(***************************************************************************)
(* Mechlib models (parse/model3d.py): read_model reads a tree of nodes,    *)
(* each a NODE record, an Object3D, a mesh when model_ptr is set, and the  *)
(* children; write_model writes the tree back.                             *)
(***************************************************************************)
NODE_size == 208
OBJECT3D_size == 144
NODE_BITFIELD_UPPER == 50855936       \* 0x3080000
ROT_MAX == <<249, 15, 73, 64>>        \* the largest single below 3.1416
MaxChildren == 1    \* children of the root of an input model
MaxPolygons == 2    \* polygons of the mesh of an input model

\* The fields of reader.read(NODE) at p
NodeInfo(b, p) ==
    [part_name |-> SubSeq(b, p + 1, p + 36),
     bitfield036 |-> UINT32_at(b, p + 36), zero040 |-> UINT32_at(b, p + 40),
     one044 |-> UINT32_at(b, p + 44), flag048 |-> b[p + 49], pad049 |-> b[p + 50],
     pad050 |-> b[p + 51], pad051 |-> b[p + 52], node_type |-> UINT32_at(b, p + 52),
     node_ptr |-> UINT32_at(b, p + 56), model_ptr |-> UINT32_at(b, p + 60),
     zero064 |-> UINT32_at(b, p + 64), one068 |-> UINT32_at(b, p + 68),
     action_cb_ptr |-> UINT32_at(b, p + 72), mone076 |-> INT32_at(b, p + 76),
     mone080 |-> INT32_at(b, p + 80), parent_count |-> UINT32_at(b, p + 84),
     parent_ptr |-> UINT32_at(b, p + 88), child_count |-> UINT32_at(b, p + 92),
     child_ptr |-> UINT32_at(b, p + 96), zero100 |-> UINT32_at(b, p + 100),
     zero104 |-> UINT32_at(b, p + 104), zero108 |-> UINT32_at(b, p + 108),
     zero112 |-> UINT32_at(b, p + 112), unknown |-> FLOATS_at(b, p + 116, 18),
     zero188 |-> UINT32_at(b, p + 188), zero192 |-> UINT32_at(b, p + 192),
     unk196 |-> UINT32_at(b, p + 196), zero200 |-> UINT32_at(b, p + 200),
     zero204 |-> UINT32_at(b, p + 204)]

\* The assertions of _read_node on the record i
node_info_valid(i, is_child) ==
    /\ i.bitfield036 - (i.bitfield036 % 2048) = NODE_BITFIELD_UPPER
    /\ i.zero040 = 0 /\ i.one044 = 1
    /\ i.flag048 = 255 /\ i.pad049 = 0 /\ i.pad050 = 0 /\ i.pad051 = 0
    /\ i.node_type = 5
    /\ i.node_ptr # 0
    /\ i.zero064 = 0 /\ i.one068 = 1 /\ i.action_cb_ptr = 0
    /\ i.mone076 = -1 /\ i.mone080 = -1
    /\ IF is_child THEN i.parent_count = 1 /\ i.parent_ptr # 0
       ELSE i.parent_count = 0 /\ i.parent_ptr = 0
    /\ IF i.child_count = 0 THEN i.child_ptr = 0 ELSE i.child_ptr # 0
    /\ i.zero100 = 0 /\ i.zero104 = 0 /\ i.zero108 = 0 /\ i.zero112 = 0
    /\ i.zero188 = 0 /\ i.zero192 = 0 /\ i.unk196 = 160
    /\ i.zero200 = 0 /\ i.zero204 = 0

\* -3.1416 < v < 3.1416 of a single v
rot_in_range(v) == ~IsNaN(v) /\ FloatMagnitude(v) <= FloatMagnitude(ROT_MAX)

\* _read_object3d(reader)
Object3D(b, p) ==
    [flag |-> UINT32_at(b, p),
     rot_x |-> FLOAT_at(b, p + 24), rot_y |-> FLOAT_at(b, p + 28),
     rot_z |-> FLOAT_at(b, p + 32),
     trans_x |-> FLOAT_at(b, p + 84), trans_y |-> FLOAT_at(b, p + 88),
     trans_z |-> FLOAT_at(b, p + 92),
     unknown |-> FLOATS_at(b, p + 48, 9)]
object3d_valid(b, p) ==
    /\ UINT32_at(b, p) \in {32, 40}
    /\ \A k \in 1..5 : FloatEq(FLOAT_at(b, p + 4 * k), Float_0)
    /\ \A k \in 6..8 : rot_in_range(FLOAT_at(b, p + 4 * k))
    /\ \A k \in 9..11 : FloatEq(FLOAT_at(b, p + 4 * k), Float_1)
    /\ \A k \in 24..35 : UINT32_at(b, p + 4 * k) = 0
read_object3d(b, p, pre) ==
    IF unpack_from_pos(b, p, OBJECT3D_size) < 0 THEN Raised("struct.error", p, pre)
    ELSE IF ~object3d_valid(b, p) THEN Raised("Mech3ParseError", p + OBJECT3D_size, p)
    ELSE Returned(Object3D(b, p), p + OBJECT3D_size, p)

\* The assertions of _read_mesh of parse/model3d.py
mesh_info_valid(i) ==
    /\ i.file_ptr = 0 /\ i.zero04 = 0
    /\ i.unk08 \in {2, 3}
    /\ i.has_parents = 1
    /\ i.zero36 = 0 /\ i.unk40 = 0 /\ i.unk44 = 0 /\ i.zero48 = 0
    /\ i.polygon_count > 0 /\ i.polygon_ptr # 0
    /\ i.vertex_count > 0 /\ i.vertex_ptr # 0
    /\ (i.normal_count = 0) = (i.normal_ptr = 0)
    /\ i.light_count = 0 /\ i.light_ptr = 0
    /\ i.morph_count = 0 /\ i.morph_ptr = 0
    /\ i.zero88 = 0

\* _read_mesh(reader): the vertex and normal arrays start at at[1..2]
read_model_mesh_polygons(b, i, at, r) ==
    IF ~r.ok THEN r
    ELSE Returned(Mesh(i, VEC3S_at(b, at[1], i.vertex_count),
                       VEC3S_at(b, at[2], i.normal_count), <<>>, <<>>, r.value),
                  r.offset, r.prev)
read_model_mesh_vectors(b, i, r) ==
    IF ~r.ok THEN r
    ELSE read_model_mesh_polygons(b, i, r.value,
                                  read_polygons(b, r.offset, r.prev, i.polygon_count))
read_mesh(b, p, pre) ==
    IF unpack_from_pos(b, p, MESH_size) < 0 THEN Raised("struct.error", p, pre)
    ELSE IF ~mesh_info_valid(MeshInfo(b, p))
    THEN Raised("Mech3ParseError", p + MESH_size, p)
    ELSE read_model_mesh_vectors(b, MeshInfo(b, p),
             read_arrays(b, p + MESH_size, p,
                         <<<<MeshInfo(b, p).vertex_count, VEC3_size>>,
                           <<MeshInfo(b, p).normal_count, VEC3_size>>>>, <<>>))

\* Node(...) at the end of _read_node: the name is decoded here.  mesh is
\* <<>> for None and <<mesh>> otherwise.
ModelNode(i, object3d, mesh, r) ==
    IF ~r.ok THEN r
    ELSE IF ~ascii_zterm_node_name(i.part_name).ok
    THEN Raised(ascii_zterm_node_name(i.part_name).err, r.offset, r.prev)
    ELSE Returned([name |-> ascii_zterm_node_name(i.part_name).value,
                   bitfield |-> i.bitfield036 % 2048,
                   object3d |-> object3d, mesh |-> mesh, children |-> r.value,
                   unknown |-> i.unknown, node_ptr |-> i.node_ptr,
                   model_ptr |-> i.model_ptr, parent_ptr |-> i.parent_ptr,
                   child_ptr |-> i.child_ptr],
                  r.offset, r.prev)

\* _read_node(reader), and [_read_node(reader) for _ in range(n)]
RECURSIVE read_node(_, _, _)
RECURSIVE read_node_children(_, _, _, _, _)
read_node_children_from(b, n, children, r) ==
    IF ~r.ok THEN r
    ELSE read_node_children(b, r.offset, r.prev, n - 1, Append(children, r.value))
read_node_children(b, p, pre, n, children) ==
    IF n = 0 THEN Returned(children, p, pre)
    ELSE read_node_children_from(b, n, children, read_node(b, p, pre))
read_node_mesh(b, i, object3d, m) ==
    IF ~m.ok THEN m
    ELSE ModelNode(i, object3d, m.value,
                   read_node_children(b, m.offset, m.prev, i.child_count, <<>>))
read_node_object3d(b, i, o) ==
    IF ~o.ok THEN o
    ELSE read_node_mesh(b, i, o.value,
             IF i.model_ptr = 0 THEN Returned(<<>>, o.offset, o.prev)
             ELSE LET m == read_mesh(b, o.offset, o.prev)
                  IN  IF m.ok THEN Returned(<<m.value>>, m.offset, m.prev) ELSE m)
read_node(b, p, pre) ==
    IF unpack_from_pos(b, p, NODE_size) < 0 THEN Raised("struct.error", p, pre)
    ELSE IF ~node_info_valid(NodeInfo(b, p), p # 0)
    THEN Raised("Mech3ParseError", p + NODE_size, p)
    ELSE read_node_object3d(b, NodeInfo(b, p), read_object3d(b, p + NODE_size, p))

\* pack_node_name(name, length)
pack_node_name(name, length) ==
    [k \in 1..length |->
       IF k <= Len(name) THEN name[k]
       ELSE IF k = Len(name) + 1 THEN 0
       ELSE IF k <= Len(DEFAULT_NODE_NAME) THEN DEFAULT_NODE_NAME[k]
       ELSE 0]

\* _write_polygons(f, polygons): the POLYGON record of one polygon
write_polygon_info(polygon) ==
    UINT32_pack(Len(polygon.vertex_indices)
                  + (IF polygon.unk_bit THEN 256 ELSE 0)
                  + (IF polygon.vtx_bit THEN 512 ELSE 0))
        \o UINT32_pack(polygon.unk04)
        \o UINT32_pack(polygon.vertex_ptr)
        \o UINT32_pack(IF polygon.normal_indices # <<>> THEN polygon.normal_ptr ELSE 0)
        \o UINT32_pack(IF polygon.uv_coords # <<>> THEN polygon.uv_ptr ELSE 0)
        \o UINT32_pack(polygon.color_ptr)
        \o UINT32_pack(polygon.unk_ptr)
        \o UINT32_pack(polygon.texture_index)
        \o polygon.texture_info
\* the arrays of one polygon
write_polygon_data(polygon) ==
    Concat([k \in 1..Len(polygon.vertex_indices) |-> UINT32_pack(polygon.vertex_indices[k])])
        \o Concat([k \in 1..Len(polygon.normal_indices) |->
                     UINT32_pack(polygon.normal_indices[k])])
        \o Concat([k \in 1..Len(polygon.uv_coords) |->
                     FLOAT_pack(polygon.uv_coords[k][1])
                         \o FLOAT_pack(one_minus(polygon.uv_coords[k][2]))])
        \o Concat([k \in 1..Len(polygon.vertex_colors) |->
                     Concat([j \in 1..3 |-> FLOAT_pack(polygon.vertex_colors[k][j])])])
write_polygons(polygons) ==
    Concat([k \in 1..Len(polygons) |-> write_polygon_info(polygons[k])])
        \o Concat([k \in 1..Len(polygons) |-> write_polygon_data(polygons[k])])

VEC3S_pack(vs) == Concat([k \in 1..Len(vs) |-> Concat([j \in 1..3 |-> FLOAT_pack(vs[k][j])])])

\* _write_mesh(f, mesh)
write_mesh(mesh) ==
    UINT32_pack(mesh.file_ptr) \o UINT32_pack(mesh.zero04) \o UINT32_pack(mesh.unk08)
        \o UINT32_pack(mesh.has_parents)
        \o UINT32_pack(Len(mesh.polygons)) \o UINT32_pack(Len(mesh.vertices))
        \o UINT32_pack(Len(mesh.normals)) \o UINT32_pack(Len(mesh.morphs))
        \o UINT32_pack(Len(mesh.lights))
        \o UINT32_pack(0) \o UINT32_pack(mesh.unk40) \o UINT32_pack(mesh.unk44)
        \o UINT32_pack(0)
        \o UINT32_pack(IF Len(mesh.polygons) # 0 THEN mesh.polygon_ptr ELSE 0)
        \o UINT32_pack(IF Len(mesh.vertices) # 0 THEN mesh.vertex_ptr ELSE 0)
        \o UINT32_pack(IF Len(mesh.normals) # 0 THEN mesh.normal_ptr ELSE 0)
        \o UINT32_pack(IF Len(mesh.lights) # 0 THEN mesh.light_ptr ELSE 0)
        \o UINT32_pack(IF Len(mesh.morphs) # 0 THEN mesh.morph_ptr ELSE 0)
        \o UINT32_pack(mesh.unk72) \o UINT32_pack(mesh.unk76)
        \o UINT32_pack(mesh.unk80) \o UINT32_pack(mesh.unk84)
        \o UINT32_pack(0)
        \o VEC3S_pack(mesh.vertices) \o VEC3S_pack(mesh.normals) \o VEC3S_pack(mesh.morphs)
        \o write_polygons(mesh.polygons)

\* _write_object3d(f, object3d)
write_object3d(object3d) ==
    UINT32_pack(object3d.flag) \o Zeros(20)
        \o FLOAT_pack(object3d.rot_x) \o FLOAT_pack(object3d.rot_y)
        \o FLOAT_pack(object3d.rot_z)
        \o Float_1 \o Float_1 \o Float_1
        \o Concat([k \in 1..9 |-> FLOAT_pack(object3d.unknown[k])])
        \o FLOAT_pack(object3d.trans_x) \o FLOAT_pack(object3d.trans_y)
        \o FLOAT_pack(object3d.trans_z)
        \o Zeros(48)

\* _write_node(f, node, is_child)
RECURSIVE write_node(_, _)
write_node(node, is_child) ==
    pack_node_name(node.name, 36)
        \o UINT32_pack(node.bitfield + NODE_BITFIELD_UPPER)
        \o UINT32_pack(0) \o UINT32_pack(1) \o <<255, 0, 0, 0>>
        \o UINT32_pack(5) \o UINT32_pack(node.node_ptr)
        \o UINT32_pack(IF node.mesh # <<>> THEN node.model_ptr ELSE 0)
        \o UINT32_pack(0) \o UINT32_pack(1) \o UINT32_pack(0)
        \o INT32_pack(-1) \o INT32_pack(-1)
        \o UINT32_pack(IF is_child THEN 1 ELSE 0)
        \o UINT32_pack(IF is_child THEN node.parent_ptr ELSE 0)
        \o UINT32_pack(Len(node.children))
        \o UINT32_pack(IF node.children # <<>> THEN node.child_ptr ELSE 0)
        \o Zeros(16)
        \o Concat([k \in 1..18 |-> FLOAT_pack(node.unknown[k])])
        \o UINT32_pack(0) \o UINT32_pack(0) \o UINT32_pack(160)
        \o UINT32_pack(0) \o UINT32_pack(0)
        \o write_object3d(node.object3d)
        \o (IF node.mesh # <<>> THEN write_mesh(node.mesh[1]) ELSE <<>>)
        \o Concat([k \in 1..Len(node.children) |-> write_node(node.children[k], TRUE)])

\* root = read_model(data)
read_model ==
    /\ pc = "read_model"
    /\ \E r \in {read_node(data, 0, 0)} :
          IF ~r.ok
          THEN /\ pc' = "failed" /\ err' = r.err
               /\ offset' = r.offset /\ prev' = r.prev
               /\ UNCHANGED root
          ELSE /\ offset' = r.offset /\ prev' = r.prev
               /\ IF r.offset = Len(data)
                  THEN pc' = "model_read" /\ root' = r.value /\ UNCHANGED err
                  ELSE pc' = "failed" /\ err' = "Mech3ParseError" /\ UNCHANGED root
    /\ UNCHANGED <<data, f>>
    /\ UNCHANGED notModel

\* write_model(f, root)
write_model ==
    /\ pc = "model_read"
    /\ f' = f \o write_node(root, FALSE)
    /\ pc' = "model_written"
    /\ UNCHANGED <<data, offset, prev, root, err>>
    /\ UNCHANGED notModel

\* Input models.  The root is named "a" and has `nchild` leaf children
\* named "b"; mesh is <<normal_count, normal_ptr, polys>> and a polygon of
\* polys is <<vertex_info, normal_ptr, uv_ptr>>.  Every field not named has
\* the value the assertions ask for.
Node_pack(name, model_ptr, parent_count, parent_ptr, child_count, child_ptr) ==
    pack_node_name(name, 36)
        \o UINT32_pack(NODE_BITFIELD_UPPER + 1)
        \o UINT32_pack(0) \o UINT32_pack(1) \o <<255, 0, 0, 0>>
        \o UINT32_pack(5) \o UINT32_pack(2) \o UINT32_pack(model_ptr)
        \o UINT32_pack(0) \o UINT32_pack(1) \o UINT32_pack(0)
        \o INT32_pack(-1) \o INT32_pack(-1)
        \o UINT32_pack(parent_count) \o UINT32_pack(parent_ptr)
        \o UINT32_pack(child_count) \o UINT32_pack(child_ptr)
        \o Zeros(16) \o Zeros(72)
        \o UINT32_pack(0) \o UINT32_pack(0) \o UINT32_pack(160)
        \o UINT32_pack(0) \o UINT32_pack(0)
Object3D_pack ==
    UINT32_pack(32) \o Zeros(20) \o Zeros(12) \o Float_1 \o Float_1 \o Float_1
        \o Zeros(36) \o Zeros(12) \o Zeros(48)
ModelMesh_pack(mesh) ==
    Concat([k \in 1..23 |->
              UINT32_pack(CASE k = 3 -> 2
                            [] k = 4 -> 1
                            [] k = 5 -> Len(mesh[3])
                            [] k = 6 -> 1
                            [] k = 7 -> mesh[1]
                            [] k = 14 -> 8
                            [] k = 15 -> 1
                            [] k = 16 -> mesh[2]
                            [] OTHER -> 0)])
        \o Zeros(VEC3_size) \o Zeros(VEC3_size * mesh[1])
        \o Concat([k \in 1..Len(mesh[3]) |->
                     Polygon_pack(mesh[3][k][1], 0, mesh[3][k][2], mesh[3][k][3],
                                  TEXTURE_INFO_MECHLIB)])
        \o Concat([k \in 1..Len(mesh[3]) |->
                     PolygonBody_pack(mesh[3][k][1], mesh[3][k][2], mesh[3][k][3])])
ModelFile(model_ptr, parent_ptr, nchild, child_ptr, child_parent_ptr, mesh) ==
    Node_pack(<<97>>, model_ptr, 0, parent_ptr, nchild, child_ptr)
        \o Object3D_pack
        \o (IF model_ptr = 0 THEN <<>> ELSE ModelMesh_pack(mesh))
        \o Concat([k \in 1..nchild |->
                     Node_pack(<<98>>, 0, 1, child_parent_ptr, 0, 0) \o Object3D_pack])
InputPolygonKinds ==
    {<<1, 0, 0>>, <<513, 5, 0>>, <<1, 5, 0>>, <<513, 0, 6>>, <<258, 5, 6>>, <<0, 0, 0>>}

InitModel ==
    /\ \E model_ptr \in {0, 7}, parent_ptr \in {0, 3}, nchild \in 0..MaxChildren,
          child_ptr \in {0, 9}, child_parent_ptr \in {0, 3},
          npoly \in 1..MaxPolygons, kind \in InputPolygonKinds,
          normals \in {<<0, 0>>, <<1, 4>>, <<1, 0>>}, cut \in {-1, 0, 1} :
          LET polys == [k \in 1..npoly |-> IF k = npoly THEN kind ELSE <<513, 5, 6>>]
              file == ModelFile(model_ptr, parent_ptr, nchild, child_ptr, child_parent_ptr,
                                <<normals[1], normals[2], polys>>)
          IN  data = IF cut < 0 THEN file \o <<0>> ELSE SubSeq(file, 1, Len(file) - cut)
    /\ pc = "read_model"
    /\ root = <<>> /\ f = <<>>
    /\ offset = 0 /\ prev = 0 /\ err = ""
    /\ call = <<>> /\ wrapped_meshes = <<>> /\ meshes = <<>>
    /\ count = 0 /\ array_size = 0
    /\ anim_names = <<>> /\ seqdef = <<>> /\ sequences = <<>> /\ anim_def = <<>>
    /\ slot = 0 /\ nodes = <<>> /\ do_stretch = FALSE /\ textures = <<>>
    /\ entries = <<>> /\ scripts = <<>> /\ motion = <<>>
    /\ materials = <<>> /\ names = {} /\ renames = <<>>
    /\ filetime = Tick(0, 0) /\ write_time = <<>> /\ filetime_out = Tick(0, 0)

NextModel ==
    \/ read_model
    \/ write_model

SpecModel == InitModel /\ [][NextModel]_vars

\* The offsets of the 32-bit pointer fields of a model, as write_model lays
\* the tree `node` out from offset p
polygon_data_len(polygon) ==
    UINT32_size * (Len(polygon.vertex_indices) + Len(polygon.normal_indices))
        + VEC2_size * Len(polygon.uv_coords) + VEC3_size * Len(polygon.vertex_colors)
RECURSIVE polygons_data_len(_)
polygons_data_len(polygons) ==
    IF polygons = <<>> THEN 0
    ELSE polygon_data_len(Head(polygons)) + polygons_data_len(Tail(polygons))
mesh_len(mesh) ==
    MESH_size + VEC3_size * (Len(mesh.vertices) + Len(mesh.normals) + Len(mesh.morphs))
        + POLYGON_size * Len(mesh.polygons) + polygons_data_len(mesh.polygons)
RECURSIVE node_len(_)
RECURSIVE nodes_len(_)
nodes_len(ns) == IF ns = <<>> THEN 0 ELSE node_len(Head(ns)) + nodes_len(Tail(ns))
node_len(node) ==
    NODE_size + OBJECT3D_size
        + (IF node.mesh # <<>> THEN mesh_len(node.mesh[1]) ELSE 0)
        + nodes_len(node.children)
mesh_pointer_offsets(mesh, q) ==
    {q + 52, q + 56, q + 60, q + 64, q + 68}
        \cup UNION {{s + 8, s + 12, s + 16, s + 20, s + 24} :
                      s \in {q + MESH_size
                               + VEC3_size * (Len(mesh.vertices) + Len(mesh.normals)
                                                + Len(mesh.morphs))
                               + POLYGON_size * (k - 1) : k \in 1..Len(mesh.polygons)}}
RECURSIVE node_pointer_offsets(_, _)
node_pointer_offsets(node, p) ==
    {p + 56, p + 60, p + 88, p + 96}
        \cup (IF node.mesh # <<>>
              THEN mesh_pointer_offsets(node.mesh[1], p + NODE_size + OBJECT3D_size)
              ELSE {})
        \cup UNION {node_pointer_offsets(node.children[k],
                        p + node_len(node) - nodes_len(node.children)
                          + nodes_len(SubSeq(node.children, 1, k - 1))) :
                      k \in 1..Len(node.children)}

\* C23: for every model the mechlib model parser accepts, write_model writes
\* each 32-bit pointer field (node, model, parent, child, mesh and polygon
\* pointers, normal_ptr and uv_ptr of a polygon included) with exactly the
\* value that was read.
C23_PointersPreserved ==
    pc = "model_written" =>
        \A o \in node_pointer_offsets(root, 0) : UINT32_at(f, o) = UINT32_at(data, o)

\* What the writer does keep: the layout, and every pointer field but the
\* normal_ptr of a polygon read without normal indices
C23_PointersPreservedButNormals ==
    pc = "model_written" =>
        /\ Len(f) = Len(data)
        /\ \A o \in node_pointer_offsets(root, 0) :
              \/ UINT32_at(f, o) = UINT32_at(data, o)
              \/ /\ UINT32_at(f, o) = 0
                 /\ \E k \in 1..Len(root.mesh[1].polygons) :
                       /\ o = NODE_size + OBJECT3D_size + MESH_size
                                + VEC3_size * (Len(root.mesh[1].vertices)
                                                 + Len(root.mesh[1].normals))
                                + POLYGON_size * (k - 1) + 12
                       /\ ~root.mesh[1].polygons[k].vtx_bit

(***************************************************************************)
(* Object3D node data (parse/gamez/node_data_read.py, node_data_write.py,  *)
(* sign.py, float/fallback.py).  OBJECT3D is read as 24 numbers and the 48 *)
(* bytes behind them.  The rotations of the inputs are +0.0, -0.0 and NaN, *)
(* for which sin and cos are known; the arithmetic below is that of the    *)
(* values 0.0, -0.0, 1.0, -1.0 and NaN.                                    *)
(***************************************************************************)
Float_pi == <<219, 15, 73, 64>>         \* PI = force_single_prec(pi)
IDENTITY_MATRIX == <<Float_1, Float_0, Float_0, Float_0, Float_1, Float_0,
                     Float_0, Float_0, Float_1>>
MaxFlips == 2       \* entries of an input matrix whose sign bit is flipped

FloatSin(v) == IF IsNaN(v) THEN Float_nan ELSE CASE IsZero(v) -> v
FloatCos(v) == IF IsNaN(v) THEN Float_nan ELSE CASE IsZero(v) -> Float_1

\* euler_to_matrix(x, y, z) of float/fallback.py
euler_to_matrix_of(sin_x, cos_x, sin_y, cos_y, sin_z, cos_z) ==
    <<FloatMul(cos_z, cos_y),
      FloatSub(FloatMul(FloatMul(cos_z, sin_y), sin_x), FloatMul(sin_z, cos_x)),
      FloatAdd(FloatMul(FloatMul(cos_z, sin_y), cos_x), FloatMul(sin_z, sin_x)),
      FloatMul(sin_z, cos_y),
      FloatAdd(FloatMul(FloatMul(sin_z, sin_y), sin_x), FloatMul(cos_z, cos_x)),
      FloatSub(FloatMul(FloatMul(sin_z, sin_y), cos_x), FloatMul(cos_z, sin_x)),
      FloatNeg(sin_y),
      FloatMul(cos_y, sin_x),
      FloatMul(cos_y, cos_x)>>
euler_to_matrix(x, y, z) ==
    euler_to_matrix_of(FloatSin(FloatNeg(x)), FloatCos(FloatNeg(x)),
                       FloatSin(FloatNeg(y)), FloatCos(FloatNeg(y)),
                       FloatSin(FloatNeg(z)), FloatCos(FloatNeg(z)))

\* extract_zero_signs(*values): bit i - 1 is set when values[i] is -0.0
RECURSIVE SumOf(_, _)
SumOf(g, n) == IF n = 0 THEN 0 ELSE g[n] + SumOf(g, n - 1)
extract_zero_signs(values) ==
    SumOf([i \in 1..Len(values) |->
             IF IsZero(values[i]) /\ FloatSign(values[i]) = 1 THEN Pow2(i - 1) ELSE 0],
          Len(values))

\* apply_zero_signs(signs, matrix)
apply_zero_signs_positive(signs, matrix) ==
    [i \in 1..Len(matrix) |->
       IF IsZero(matrix[i]) /\ FloatSign(matrix[i]) = 1 THEN FloatNeg(matrix[i]) ELSE matrix[i]]
apply_zero_signs(signs, matrix) ==
    [i \in 1..Len(matrix) |->
       IF IsZero(matrix[i])
            /\ (FloatSign(matrix[i]) = 1) # ((signs \div Pow2(i - 1)) % 2 = 1)
       THEN FloatNeg(matrix[i]) ELSE matrix[i]]

\* _assert_matrix(expected)
assert_matrix(expected, matrix) == \A k \in 1..9 : FloatEq(expected[k], matrix[k])

\* -PI <= v <= PI as assert_between decides it: a NaN passes
rot_between_pi(v) == ~FloatGt(FloatNeg(Float_pi), v) /\ ~FloatGt(v, Float_pi)

\* Object3d(...) of read_node_data_object3d: None is <<>>
Object3d(rotation, translation, matrix, matrix_sign) ==
    [type |-> "Object3D", rotation |-> rotation, translation |-> translation,
     matrix |-> matrix, matrix_sign |-> matrix_sign]

\* read_node_data_object3d(reader), the record at p
object3d_fixed_valid(b, p) ==
    /\ UINT32_at(b, p) \in {32, 40}
    /\ \A k \in 1..5 : FloatEq(Float_0, FLOAT_at(b, p + 4 * k))
    /\ \A k \in 9..11 : FloatEq(Float_1, FLOAT_at(b, p + 4 * k))
    /\ \A k \in 97..144 : b[p + k] = 0
object3d_data(flag_raw, rot, matrix, trans) ==
    IF flag_raw = 40
    THEN IF /\ \A k \in 1..3 : FloatEq(Float_0, rot[k])
            /\ \A k \in 1..3 : FloatEq(Float_0, trans[k])
            /\ assert_matrix(IDENTITY_MATRIX, matrix)
         THEN Ok(Object3d(<<>>, <<>>, <<>>, extract_zero_signs(matrix)))
         ELSE Raise("Mech3ParseError")
    ELSE IF ~(\A k \in 1..3 : rot_between_pi(rot[k])) THEN Raise("Mech3ParseError")
    ELSE IF assert_matrix(euler_to_matrix(rot[1], rot[2], rot[3]), matrix)
    THEN Ok(Object3d(rot, trans, <<>>, extract_zero_signs(matrix)))
    ELSE Ok(Object3d(rot, trans, matrix, 0))
read_node_data_object3d_at(b, p, pre) ==
    IF unpack_from_pos(b, p, OBJECT3D_size) < 0 THEN Raised("struct.error", p, pre)
    ELSE IF ~object3d_fixed_valid(b, p) THEN Raised("Mech3ParseError", p + OBJECT3D_size, p)
    ELSE LET r == object3d_data(UINT32_at(b, p), FLOATS_at(b, p + 24, 3),
                                FLOATS_at(b, p + 48, 9), FLOATS_at(b, p + 84, 3))
         IN  IF r.ok THEN Returned(r.value, p + OBJECT3D_size, p)
             ELSE Raised(r.err, p + OBJECT3D_size, p)

\* The matrix write_node_data_object3d packs
object3d_matrix(object3d) ==
    IF object3d.rotation # <<>> /\ object3d.translation # <<>>
    THEN IF object3d.matrix # <<>> THEN object3d.matrix
         ELSE apply_zero_signs(object3d.matrix_sign,
                               euler_to_matrix(object3d.rotation[1], object3d.rotation[2],
                                               object3d.rotation[3]))
    ELSE apply_zero_signs(object3d.matrix_sign, IDENTITY_MATRIX)
\* write_node_data_object3d(f, object3d): the bytes written
write_node_data_object3d_bytes(object3d) ==
    LET full == object3d.rotation # <<>> /\ object3d.translation # <<>>
    IN  UINT32_pack(IF full THEN 32 ELSE 40)
            \o Concat([k \in 1..5 |-> Float_0])
            \o (IF full THEN Concat([k \in 1..3 |-> FLOAT_pack(object3d.rotation[k])])
                ELSE Concat([k \in 1..3 |-> Float_0]))
            \o Concat([k \in 1..3 |-> Float_1])
            \o Concat([k \in 1..9 |-> FLOAT_pack(object3d_matrix(object3d)[k])])
            \o (IF full THEN Concat([k \in 1..3 |-> FLOAT_pack(object3d.translation[k])])
                ELSE Concat([k \in 1..3 |-> Float_0]))
            \o Zeros(48)

\* object3d = read_node_data_object3d(reader)
read_node_data_object3d ==
    /\ pc = "read_object3d"
    /\ \E r \in {read_node_data_object3d_at(data, offset, prev)} :
          /\ offset' = r.offset /\ prev' = r.prev
          /\ IF r.ok THEN pc' = "object3d_read" /\ root' = r.value /\ UNCHANGED err
             ELSE pc' = "failed" /\ err' = r.err /\ UNCHANGED root
    /\ UNCHANGED <<data, f>>
    /\ UNCHANGED notModel

\* write_node_data_object3d(f, object3d)
write_node_data_object3d ==
    /\ pc = "object3d_read"
    /\ f' = f \o write_node_data_object3d_bytes(root)
    /\ pc' = "object3d_written"
    /\ UNCHANGED <<data, offset, prev, root, err>>
    /\ UNCHANGED notModel

\* Input records: the matrix is the Euler matrix of the rotation, the
\* identity, or the identity with 0.5 in its corner, with the sign bits of
\* the entries in `flips` flipped
InputMatrix(kind, rot, flips) ==
    LET m == CASE kind = 0 -> euler_to_matrix(rot[1], rot[2], rot[3])
               [] kind = 1 -> IDENTITY_MATRIX
               [] kind = 2 -> [IDENTITY_MATRIX EXCEPT ![1] = Float_half]
    IN  [k \in 1..9 |-> IF k \in flips THEN FloatNeg(m[k]) ELSE m[k]]
Object3d_pack(flag_raw, rot, matrix, trans, pad) ==
    UINT32_pack(flag_raw) \o Zeros(20)
        \o Concat(rot) \o Float_1 \o Float_1 \o Float_1
        \o Concat(matrix) \o Concat(trans)
        \o Zeros(47) \o <<pad>>
FlipSets == {s \in SUBSET (1..9) : Cardinality(s) <= MaxFlips} \cup {1..9}

InitObject3d ==
    /\ \E flag_raw \in {32, 40, 33}, rot_x \in {Float_0, Float_m0, Float_nan},
          rot_y \in {Float_0, Float_m0}, rot_z \in {Float_0, Float_m0},
          kind \in 0..2, flips \in FlipSets,
          trans_x \in {Float_0, Float_m0, Float_1}, pad \in {0, 1} :
          data = Object3d_pack(flag_raw, <<rot_x, rot_y, rot_z>>,
                               InputMatrix(kind, <<rot_x, rot_y, rot_z>>, flips),
                               <<trans_x, Float_0, Float_m0>>, pad)
    /\ pc = "read_object3d"
    /\ root = <<>> /\ f = <<>>
    /\ offset = 0 /\ prev = 0 /\ err = ""
    /\ call = <<>> /\ wrapped_meshes = <<>> /\ meshes = <<>>
    /\ count = 0 /\ array_size = 0
    /\ anim_names = <<>> /\ seqdef = <<>> /\ sequences = <<>> /\ anim_def = <<>>
    /\ slot = 0 /\ nodes = <<>> /\ do_stretch = FALSE /\ textures = <<>>
    /\ entries = <<>> /\ scripts = <<>> /\ motion = <<>>
    /\ materials = <<>> /\ names = {} /\ renames = <<>>
    /\ filetime = Tick(0, 0) /\ write_time = <<>> /\ filetime_out = Tick(0, 0)

NextObject3d ==
    \/ read_node_data_object3d
    \/ write_node_data_object3d

SpecObject3d == InitObject3d /\ [][NextObject3d]_vars

MaxTable == 2       \* entries of a table of an input AnimDef
ObjectTranslateState_STRUCT_size == 20
INPUT_NODE_BELOW == -13107190

\* AnimDef.get_light, get_puffer and get_sound
get_light(anim, index) ==
    IF ~assert_between(0, Len(anim.lights) - 1, index) THEN Raise("Mech3ParseError")
    ELSE Ok(anim.lights[index + 1])
get_puffer(anim, index) ==
    IF ~assert_between(0, Len(anim.puffers) - 1, index) THEN Raise("Mech3ParseError")
    ELSE Ok(anim.puffers[index + 1])
get_sound(anim, index) ==
    IF ~assert_between(0, Len(anim.static_sounds) - 1, index) THEN Raise("Mech3ParseError")
    ELSE Ok(anim.static_sounds[index + 1])
\* AnimDef.get_node_or_input
get_node_or_input(anim, index) ==
    IF index < 0 THEN Ok(INPUT_NODE) ELSE get_node(anim, index)

\* AtNodeShort.from_index(anim_def, index, tx, ty, tz, offset): None is NoData
AtNodeShort_from_index(anim, index, tx, ty, tz) ==
    IF index = 0 THEN Ok(NoData)
    ELSE IF ~get_node(anim, index - 1).ok THEN get_node(anim, index - 1)
    ELSE Ok(AtNodeShort(get_node(anim, index - 1).value, tx, ty, tz))

\* AtNodeLong.from_index(anim_def, index, tx, ty, tz, rx, ry, rz, offset)
AtNodeLong_from_index(anim, index, tx, ty, tz, rx, ry, rz) ==
    LET node == IF index > 100 THEN Ok(INPUT_NODE) ELSE get_node_or_input(anim, index - 1)
    IN  IF index = 0 THEN Ok(NoData)
        ELSE IF ~node.ok THEN node
        ELSE Ok(AtNodeLong(node.value, tx, ty, tz, rx, ry, rz))

\* ObjectTranslateState.read, on the 20 bytes at p (reader.prev)
ObjectTranslateState_read(b, p, anim) ==
    LET at_node_matrix == INT32_at(b, p)
        node_index == INT32_at(b, p + 16)
        node == IF node_index < 1 THEN Ok(INPUT_NODE) ELSE get_node(anim, node_index - 1)
    IN  IF at_node_matrix # 0 THEN Raise("Mech3ParseError")
        ELSE IF node_index < 1 /\ ~(node_index < INPUT_NODE_BELOW) THEN Raise("Mech3ParseError")
        ELSE IF ~node.ok THEN node
        ELSE Ok([type |-> "OBJECT_TRANSLATE_STATE", node |-> node.value,
                 state |-> FLOATS_at(b, p + 4, 3)])

\* One call of a table lookup with the index minus one, as the script
\* objects make it
IndexLookup(op, anim, index) ==
    CASE op = "get_node" -> get_node(anim, index - 1)
      [] op = "get_light" -> get_light(anim, index - 1)
      [] op = "get_puffer" -> get_puffer(anim, index - 1)
      [] op = "get_sound" -> get_sound(anim, index - 1)
call_get ==
    /\ pc = "resolve"
    /\ call.op \in {"get_node", "get_light", "get_puffer", "get_sound"}
    /\ \E r \in {IndexLookup(call.op, anim_def, call.index)} :
          IF r.ok THEN pc' = "resolved" /\ root' = r.value /\ UNCHANGED err
          ELSE pc' = "failed" /\ err' = r.err /\ UNCHANGED root
    /\ UNCHANGED <<anim_def, call, data, offset, prev>>
    /\ UNCHANGED notIndex
call_AtNodeShort_from_index ==
    /\ pc = "resolve"
    /\ call.op = "AtNodeShort.from_index"
    /\ \E r \in {AtNodeShort_from_index(anim_def, call.index, Float_0, Float_0, Float_0)} :
          IF r.ok THEN pc' = "resolved" /\ root' = r.value /\ UNCHANGED err
          ELSE pc' = "failed" /\ err' = r.err /\ UNCHANGED root
    /\ UNCHANGED <<anim_def, call, data, offset, prev>>
    /\ UNCHANGED notIndex
call_AtNodeLong_from_index ==
    /\ pc = "resolve"
    /\ call.op = "AtNodeLong.from_index"
    /\ \E r \in {AtNodeLong_from_index(anim_def, call.index, Float_0, Float_0, Float_0,
                                       Float_0, Float_0, Float_0)} :
          IF r.ok THEN pc' = "resolved" /\ root' = r.value /\ UNCHANGED err
          ELSE pc' = "failed" /\ err' = r.err /\ UNCHANGED root
    /\ UNCHANGED <<anim_def, call, data, offset, prev>>
    /\ UNCHANGED notIndex
\* cls.read(reader, anim_def) of the two script objects, on a reader at 0
ReadScriptObject(op, b, anim) ==
    CASE op = "CallAnimation.read" -> CallAnimation_read(b, 0, anim)
      [] op = "ObjectTranslateState.read" -> ObjectTranslateState_read(b, 0, anim)
call_read ==
    /\ pc = "resolve"
    /\ call.op \in {"CallAnimation.read", "ObjectTranslateState.read"}
    /\ offset' = Len(data) /\ prev' = offset
    /\ \E r \in {ReadScriptObject(call.op, data, anim_def)} :
          IF r.ok THEN pc' = "resolved" /\ root' = r.value /\ UNCHANGED err
          ELSE pc' = "failed" /\ err' = r.err /\ UNCHANGED root
    /\ UNCHANGED <<anim_def, call, data>>
    /\ UNCHANGED notIndex

\* Inputs: tables of n nodes and m lights, puffers and static sounds; a
\* CALL_ANIMATION with AT_NODE or WITH_NODE (flag 1 or 8) and an
\* OBJECT_TRANSLATE_STATE that carry the index
TableNames == << <<110, 49>>, <<110, 50>>, <<110, 51>> >>
InputIndices ==
    {-13107200, INPUT_NODE_BELOW, -201, -200, -5, -1, 0, 1, 2, 3, 4, 100, 101,
     INPUT_NODE_INDEX - 1, INPUT_NODE_INDEX, INPUT_NODE_INDEX + 1}
IndexOps ==
    {"get_node", "get_light", "get_puffer", "get_sound", "AtNodeShort.from_index",
     "AtNodeLong.from_index", "CallAnimation.read", "ObjectTranslateState.read"}
IndexRecord(op, flag, index) ==
    CASE op = "CallAnimation.read" ->
           CallAnimation_pack(<<120>>, 0, flag, 0, -1, index, Float_0, Float_0)
      [] op = "ObjectTranslateState.read" ->
           INT32_pack(0) \o Float_0 \o Float_0 \o Float_0 \o INT32_pack(index)
      [] OTHER -> <<>>
\* The table an operation looks its index up in
IndexTable(op, anim) ==
    CASE op = "get_light" -> anim.lights
      [] op = "get_puffer" -> anim.puffers
      [] op = "get_sound" -> anim.static_sounds
      [] OTHER -> anim.nodes

InitIndex ==
    /\ \E op \in IndexOps, index \in InputIndices, flag \in {1, 8},
          n \in 0..MaxTable, k \in 0..MaxTable :
          /\ call = [op |-> op, index |-> index]
          /\ anim_def = [nodes |-> SubSeq(TableNames, 1, n), lights |-> SubSeq(TableNames, 1, k),
                         puffers |-> SubSeq(TableNames, 1, k),
                         static_sounds |-> SubSeq(TableNames, 1, k), anim_refs |-> 1]
          /\ data = IndexRecord(op, flag, index)
    /\ pc = "resolve"
    /\ root = <<>> /\ f = <<>>
    /\ offset = 0 /\ prev = 0 /\ err = ""
    /\ wrapped_meshes = <<>> /\ meshes = <<>>
    /\ count = 0 /\ array_size = 0
    /\ anim_names = <<>> /\ seqdef = <<>> /\ sequences = <<>>
    /\ slot = 0 /\ nodes = <<>> /\ do_stretch = FALSE /\ textures = <<>>
    /\ entries = <<>> /\ scripts = <<>> /\ motion = <<>>
    /\ materials = <<>> /\ names = {} /\ renames = <<>>
    /\ filetime = Tick(0, 0) /\ write_time = <<>> /\ filetime_out = Tick(0, 0)

NextIndex ==
    \/ call_get
    \/ call_AtNodeShort_from_index
    \/ call_AtNodeLong_from_index
    \/ call_read

SpecIndex == InitIndex /\ [][NextIndex]_vars

\* C25: an index carried by a script object is accepted only if it is the
\* INPUT_NODE sentinel (-200 or 65336) or lies in 1..N, N being the length
\* of the table of the enclosing AnimDef it refers to; any other index
\* fails the parse.
C25_IndexBounds ==
    pc = "resolved" =>
        \/ call.index \in {-200, INPUT_NODE_INDEX}
        \/ call.index \in 1..Len(IndexTable(call.op, anim_def))

\* What holds of the lookups themselves, and of CALL_ANIMATION
C25_LookupBounds ==
    pc = "resolved"
        /\ call.op \in {"get_node", "get_light", "get_puffer", "get_sound",
                        "CallAnimation.read"} =>
        \/ call.index = INPUT_NODE_INDEX /\ call.op = "CallAnimation.read"
        \/ call.index \in 1..Len(IndexTable(call.op, anim_def))

(***************************************************************************)
(* Activation prerequisites (parse/anim/activation_prereq.py).  The locals *)
(* of read_activation_prereq are kept in `root`: anim_list, obj_list and   *)
(* prev, the pending type-3 object (NoData for None); `slot` counts the    *)
(* records read.                                                           *)
(***************************************************************************)
ACTIV_PREREQ_HEADER_size == 8
ACTIV_PREREQ_ANIM_size == 40
ACTIV_PREREQ_OBJ_size == 40
MaxPrereqs == 3     \* records of an input prerequisite list

PrereqObject(required, active, name, ptr, parent_name, parent_ptr) ==
    [required |-> required, active |-> active, name |-> name, ptr |-> ptr,
     parent_name |-> parent_name, parent_ptr |-> parent_ptr]

\* read_activation_prereq_anim(reader), the record at p
read_activation_prereq_anim(b, p, pre) ==
    LET name == assert_ascii(ascii_zterm_padded(SubSeq(b, p + 1, p + 32)))
    IN  IF unpack_from_pos(b, p, ACTIV_PREREQ_ANIM_size) < 0 THEN Raised("struct.error", p, pre)
        ELSE IF ~name.ok THEN Raised(name.err, p + ACTIV_PREREQ_ANIM_size, p)
        ELSE IF UINT32_at(b, p + 32) # 0 \/ UINT32_at(b, p + 36) # 0
        THEN Raised("Mech3ParseError", p + ACTIV_PREREQ_ANIM_size, p)
        ELSE Returned(name.value, p + ACTIV_PREREQ_ANIM_size, p)

\* read_activation_prereq_obj(reader, required, prereq_type, prev), the
\* record at p: the value is <<prev, obj>>
read_activation_prereq_obj(b, p, pre, required, prereq_type, latch) ==
    LET active == UINT32_at(b, p)
        name == assert_ascii(ascii_zterm_padded(SubSeq(b, p + 5, p + 36)))
        ptr == UINT32_at(b, p + 36)
        at == p + ACTIV_PREREQ_OBJ_size
    IN  IF unpack_from_pos(b, p, ACTIV_PREREQ_OBJ_size) < 0 THEN Raised("struct.error", p, pre)
        ELSE IF ~name.ok THEN Raised(name.err, at, p)
        ELSE IF ptr = 0 THEN Raised("Mech3ParseError", at, p)
        ELSE IF prereq_type = 3
        THEN IF active # 0 THEN Raised("Mech3ParseError", at, p)
             ELSE Returned(<<PrereqObject(required, FALSE, name.value, ptr, <<>>, 0),
                             NoData>>, at, p)
        ELSE IF active \notin {0, 1} THEN Raised("Mech3ParseError", at, p)
        ELSE IF latch # NoData /\ latch.required # required
        THEN Raised("Mech3ParseError", at, p)
        ELSE Returned(<<NoData,
                        PrereqObject(required, active = 1, name.value, ptr,
                                     IF latch # NoData THEN latch.name ELSE <<>>,
                                     IF latch # NoData THEN latch.ptr ELSE 0)>>, at, p)

\* One pass of the loop of read_activation_prereq over the locals l, with
\* the reader at p: the value is the locals after it
read_activation_prereq_anim_into(l, r) ==
    IF ~r.ok THEN r
    ELSE Returned([l EXCEPT !.anim_list = Append(@, r.value)], r.offset, r.prev)
read_activation_prereq_obj_into(l, r) ==
    IF ~r.ok THEN r
    ELSE Returned([l EXCEPT !.prev = r.value[1],
                            !.obj_list = IF r.value[2] # NoData THEN Append(@, r.value[2])
                                         ELSE @],
                  r.offset, r.prev)
read_activation_prereq_record(b, p, pre, l) ==
    LET optional == UINT32_at(b, p)
        prereq_type == UINT32_at(b, p + 4)
        at == p + ACTIV_PREREQ_HEADER_size
    IN  IF unpack_from_pos(b, p, ACTIV_PREREQ_HEADER_size) < 0
        THEN Raised("struct.error", p, pre)
        ELSE IF prereq_type \notin {1, 2, 3} THEN Raised("Mech3ParseError", at, p)
        ELSE IF prereq_type = 1
        THEN IF optional # 0 THEN Raised("Mech3ParseError", at, p)
             ELSE read_activation_prereq_anim_into(l, read_activation_prereq_anim(b, at, p))
        ELSE IF optional \notin {0, 1} THEN Raised("Mech3ParseError", at, p)
        ELSE read_activation_prereq_obj_into(l,
                 read_activation_prereq_obj(b, at, p, optional = 0, prereq_type, l.prev))

\* for _ in range(count): one record
read_activation_prereq_loop ==
    /\ pc = "read_activation_prereq"
    /\ slot < count
    /\ \E r \in {read_activation_prereq_record(data, offset, prev, root)} :
          /\ offset' = r.offset /\ prev' = r.prev
          /\ IF r.ok THEN root' = r.value /\ slot' = slot + 1 /\ UNCHANGED <<pc, err>>
             ELSE pc' = "failed" /\ err' = r.err /\ UNCHANGED <<root, slot>>
    /\ UNCHANGED <<data, count, call>>
    /\ UNCHANGED notPrereq

\* return ActivationPrereq(min_to_satisfy, anim_list, obj_list)
read_activation_prereq_end ==
    /\ pc = "read_activation_prereq"
    /\ slot = count
    /\ pc' = "prereq_read"
    /\ root' = [min_to_satisfy |-> call.min_to_satisfy, anim_list |-> root.anim_list,
                obj_list |-> root.obj_list]
    /\ UNCHANGED <<data, offset, prev, count, slot, call, err>>
    /\ UNCHANGED notPrereq

\* Input lists: record k is named by the letter k and has the pointer k; a
\* record is <<prereq_type, optional>>, and the last one also has `active`
\* and may have a zero pointer
PREREQ_RECORD_size == 48
Prereq_pack(k, prereq_type, optional, active, ptr) ==
    UINT32_pack(optional) \o UINT32_pack(prereq_type)
        \o (IF prereq_type = 1 THEN Bytes_pack(<<96 + k>>, 32) \o Zeros(8)
            ELSE UINT32_pack(active) \o Bytes_pack(<<96 + k>>, 32) \o UINT32_pack(ptr))
RECURSIVE PrereqLists(_)
PrereqLists(n) ==
    IF n = 0 THEN {<<>>}
    ELSE {Append(l, <<t, o>>) : l \in PrereqLists(n - 1), t \in 1..3, o \in {0, 1}}

InitPrereq ==
    /\ \E n \in 0..MaxPrereqs :
          /\ count = n
          /\ \E l \in PrereqLists(n), active \in {0, 1, 2}, zero_ptr \in BOOLEAN,
                last_type \in {0, 4}, cut \in {0, 1} :
                LET list == Concat([k \in 1..n |->
                                      Prereq_pack(k,
                                          IF k = n /\ last_type = 4 /\ zero_ptr THEN 4
                                          ELSE l[k][1],
                                          l[k][2],
                                          IF k = n THEN active ELSE 0,
                                          IF k = n /\ zero_ptr THEN 0 ELSE k)])
                IN  data = SubSeq(list, 1, Len(list) - (IF n = 0 THEN 0 ELSE cut))
    /\ call = [min_to_satisfy |-> 1]
    /\ pc = "read_activation_prereq"
    /\ root = [anim_list |-> <<>>, obj_list |-> <<>>, prev |-> NoData]
    /\ slot = 0
    /\ f = <<>> /\ offset = 0 /\ prev = 0 /\ err = ""
    /\ wrapped_meshes = <<>> /\ meshes = <<>>
    /\ array_size = 0
    /\ anim_names = <<>> /\ seqdef = <<>> /\ sequences = <<>> /\ anim_def = <<>>
    /\ nodes = <<>> /\ do_stretch = FALSE /\ textures = <<>>
    /\ entries = <<>> /\ scripts = <<>> /\ motion = <<>>
    /\ materials = <<>> /\ names = {} /\ renames = <<>>
    /\ filetime = Tick(0, 0) /\ write_time = <<>> /\ filetime_out = Tick(0, 0)

NextPrereq ==
    \/ read_activation_prereq_loop
    \/ read_activation_prereq_end

SpecPrereq == InitPrereq /\ [][NextPrereq]_vars

\* The records of the input list, as they were written
PrereqType(k) == UINT32_at(data, PREREQ_RECORD_size * (k - 1) + 4)
PrereqName(k) ==
    ascii_zterm_padded(SubSeq(data, PREREQ_RECORD_size * (k - 1) + 13,
                              PREREQ_RECORD_size * (k - 1) + 44)).value
PrereqPtr(k) == UINT32_at(data, PREREQ_RECORD_size * k - 4)
\* The object in obj_list made of the type-2 record k
PrereqObjectOf(k) ==
    root.obj_list[Cardinality({j \in 1..k : PrereqType(j) = 2})]

\* C26: every type-3 record is held as the pending "previous" and taken by
\* the next type-2 record, whose object has the name and the pointer of
\* the type-3 record as its parent_name and parent_ptr; a type-2 record with
\* no pending type-3 record has an empty parent; no type-3 record is in
\* obj_list.
C26_PrereqLatch ==
    pc = "prereq_read" =>
        /\ Len(root.obj_list) = Cardinality({j \in 1..count : PrereqType(j) = 2})
        /\ \A j \in 1..count :
              PrereqType(j) = 2 =>
                 /\ PrereqObjectOf(j).name = PrereqName(j)
                 /\ PrereqObjectOf(j).ptr = PrereqPtr(j)
                 /\ \A k \in 1..(j - 1) :
                       (PrereqType(k) = 3 /\ \A i \in (k + 1)..(j - 1) : PrereqType(i) # 2)
                         => /\ PrereqObjectOf(j).parent_name = PrereqName(k)
                            /\ PrereqObjectOf(j).parent_ptr = PrereqPtr(k)
                 /\ (\A k \in 1..(j - 1) :
                        PrereqType(k) = 3 => \E i \in (k + 1)..(j - 1) : PrereqType(i) = 2)
                         => /\ PrereqObjectOf(j).parent_name = <<>>
                            /\ PrereqObjectOf(j).parent_ptr = 0

\* What the reader does: the parent of a type-2 record is the last type-3
\* record read since the type-2 record before it
C26_PrereqLatchLast ==
    pc = "prereq_read" =>
        /\ Len(root.obj_list) = Cardinality({j \in 1..count : PrereqType(j) = 2})
        /\ \A j \in 1..count :
              PrereqType(j) = 2 =>
                 /\ PrereqObjectOf(j).name = PrereqName(j)
                 /\ PrereqObjectOf(j).ptr = PrereqPtr(j)
                 /\ \A k \in 1..(j - 1) :
                       (PrereqType(k) = 3 /\ \A i \in (k + 1)..(j - 1) : PrereqType(i) \notin {2, 3})
                         => /\ PrereqObjectOf(j).parent_name = PrereqName(k)
                            /\ PrereqObjectOf(j).parent_ptr = PrereqPtr(k)
                 /\ (\A k \in 1..(j - 1) :
                        PrereqType(k) = 3 => \E i \in (k + 1)..(j - 1) : PrereqType(i) = 2)
                         => /\ PrereqObjectOf(j).parent_name = <<>>
                            /\ PrereqObjectOf(j).parent_ptr = 0

(***************************************************************************)
(* GameZ materials (parse/gamez/materials.py).  `count` is mat_count,      *)
(* `slot` the index of the loop that runs, `materials` the list of         *)
(* (material, cycle_ptr) and then of the materials returned, and           *)
(* call.texture_count the argument of read_materials.                      *)
(***************************************************************************)
GAMEZ_MATERIAL_HEADER_size == 16
GAMEZ_MATERIAL_INFO_size == 44
CYCLE_HEADER_size == 28
MaxLiveMaterials == 2   \* live entries of an input material table
MaxDeadMaterials == 2   \* dead entries of an input material table

MaterialFlag_Textured == 1
MaterialFlag_Unknown == 2
MaterialFlag_Cycled == 4
MaterialFlag_Always == 16
MaterialFlag_Free == 32
\* MaterialFlag.__call__ for a one-bit flag, and MaterialFlag.check
MaterialFlag_call(flag, value) == (value \div flag) % 2 = 1
MaterialFlag_check(value) ==
    /\ value # 0
    /\ \A k \in 0..7 : (value \div Pow2(k)) % 2 = 1 => k \in {0, 1, 2, 4, 5}

Float_2 == <<0, 0, 0, 64>>              \* 2.0
Float_16 == <<0, 0, 128, 65>>           \* 16.0

\* expected1 and expected2 of _read_materials, for the entry i
materials_expected1(i, mat_count) == IF i + 1 >= mat_count THEN -1 ELSE i + 1
materials_expected2(i) == IF i - 1 < 0 THEN -1 ELSE i - 1
\* expected1 and expected2 of _read_materials_zero, for the entry i
materials_zero_expected1_unclamped(i, mat_count) == i - 1
materials_zero_expected1(i, mat_count) == IF i - 1 < mat_count THEN -1 ELSE i - 1
materials_zero_expected2(i, array_size_) == IF i + 1 >= array_size_ THEN -1 ELSE i + 1

GamezMaterialOf(texture, color, unk00, unk32, unknown, cycle) ==
    [texture |-> texture, color |-> color, unk00 |-> unk00, unk32 |-> unk32,
     unknown |-> unknown, cycle |-> cycle]

\* The body of the loop of _read_materials for the entry i, the reader at
\* p: the value is <<material, cycle_ptr>>
gamez_read_material_info(b, p, pre, i, mat_count, texture_count) ==
    LET unk00 == b[p + 1]
        flag == b[p + 2]
        rgb == UINT16_at(b, p + 2)
        red == FLOAT_at(b, p + 4)
        green == FLOAT_at(b, p + 8)
        blue == FLOAT_at(b, p + 12)
        texture == UINT32_at(b, p + 16)
        unk32 == UINT32_at(b, p + 32)
        cycle_ptr == UINT32_at(b, p + 36)
        cycled == MaterialFlag_call(MaterialFlag_Cycled, flag)
        textured == MaterialFlag_call(MaterialFlag_Textured, flag)
        at == p + GAMEZ_MATERIAL_INFO_size
        valid ==
            /\ MaterialFlag_check(flag)
            /\ MaterialFlag_call(MaterialFlag_Always, flag)
            /\ ~MaterialFlag_call(MaterialFlag_Free, flag)
            /\ IF textured
               THEN /\ unk00 = 255
                    /\ rgb = 32767
                    /\ FloatEq(red, Float_255) /\ FloatEq(green, Float_255)
                    /\ FloatEq(blue, Float_255)
                    /\ 0 <= texture /\ texture <= texture_count - 1
               ELSE /\ unk00 \in {0, 51, 76, 89, 102, 127, 153, 255}
                    /\ ~MaterialFlag_call(MaterialFlag_Unknown, flag)
                    /\ ~cycled
                    /\ rgb = 0
                    /\ texture = 0
            /\ FloatEq(FLOAT_at(b, p + 20), Float_0)
            /\ FloatEq(FLOAT_at(b, p + 24), Float_half)
            /\ FloatEq(FLOAT_at(b, p + 28), Float_half)
            /\ unk32 \in {0, 1, 4, 6, 7, 8, 9, 10, 12, 13}
            /\ IF cycled THEN cycle_ptr # 0 ELSE cycle_ptr = 0
            /\ materials_expected1(i, mat_count) = INT16_at(b, p + 40)
            /\ materials_expected2(i) = INT16_at(b, p + 42)
    IN  IF unpack_from_pos(b, p, GAMEZ_MATERIAL_INFO_size) < 0
        THEN Raised("struct.error", p, pre)
        ELSE IF ~valid THEN Raised("Mech3ParseError", at, p)
        ELSE Returned(<<GamezMaterialOf(IF textured THEN <<texture>> ELSE <<>>,
                                        IF textured THEN <<>> ELSE <<red, green, blue>>,
                                        unk00, unk32,
                                        MaterialFlag_call(MaterialFlag_Unknown, flag), <<>>),
                        cycle_ptr>>, at, p)

\* The body of the loop of _read_materials_zero for the entry i: do the
\* assertions pass
gamez_material_zero_valid(b, p, i, mat_count, array_size_) ==
    /\ b[p + 1] = 0
    /\ b[p + 2] = MaterialFlag_Free
    /\ UINT16_at(b, p + 2) = 0
    /\ \A k \in 1..3 : FloatEq(FLOAT_at(b, p + 4 * k), Float_0)
    /\ UINT32_at(b, p + 16) = 0
    /\ \A k \in 5..7 : FloatEq(FLOAT_at(b, p + 4 * k), Float_0)
    /\ UINT32_at(b, p + 32) = 0
    /\ UINT32_at(b, p + 36) = 0
    /\ materials_zero_expected1(i, mat_count) = INT16_at(b, p + 40)
    /\ materials_zero_expected2(i, array_size_) = INT16_at(b, p + 42)

\* The cycle of a material with a cycle pointer, the reader at p
gamez_read_cycle(b, p, pre, material, cycle_info_ptr, texture_count) ==
    LET unk00 == UINT32_at(b, p)
        unk12 == FLOAT_at(b, p + 12)
        cycle_count1 == UINT32_at(b, p + 16)
        at == p + CYCLE_HEADER_size
        cycle_textures == [k \in 1..cycle_count1 |-> UINT32_at(b, at + 4 * (k - 1))]
    IN  IF unpack_from_pos(b, p, CYCLE_HEADER_size) < 0 THEN Raised("struct.error", p, pre)
        ELSE IF \/ unk00 \notin {0, 1}
                \/ UINT32_at(b, p + 8) # 0
                \/ FloatGt(Float_2, unk12) \/ FloatGt(unk12, Float_16)
                \/ cycle_count1 # UINT32_at(b, p + 20)
                \/ UINT32_at(b, p + 24) = 0
        THEN Raised("Mech3ParseError", at, p)
        ELSE IF unpack_from_pos(b, at, 4 * cycle_count1) < 0 THEN Raised("struct.error", at, p)
        ELSE IF \E k \in 1..cycle_count1 :
                    ~(0 <= cycle_textures[k] /\ cycle_textures[k] <= texture_count - 1)
        THEN Raised("Mech3ParseError", at + 4 * cycle_count1, at)
        ELSE Returned([material EXCEPT !.cycle =
                          <<[textures |-> cycle_textures, unk00 |-> unk00 = 1,
                             unk04 |-> UINT32_at(b, p + 4), unk12 |-> unk12,
                             info_ptr |-> cycle_info_ptr,
                             data_ptr |-> UINT32_at(b, p + 24)]>>],
                      at + 4 * cycle_count1, at)

\* read_materials: the header
gamez_read_materials_header ==
    /\ pc = "gamez_read_materials"
    /\ IF unpack_from_pos(data, offset, GAMEZ_MATERIAL_HEADER_size) < 0
       THEN pc' = "failed" /\ err' = "struct.error"
            /\ UNCHANGED <<offset, prev, count, array_size>>
       ELSE /\ prev' = offset
            /\ offset' = offset + GAMEZ_MATERIAL_HEADER_size
            /\ IF UINT32_at(data, offset + 8) = UINT32_at(data, offset + 4)
                  /\ UINT32_at(data, offset + 12) = UINT32_at(data, offset + 4) - 1
               THEN /\ array_size' = UINT32_at(data, offset)
                    /\ count' = UINT32_at(data, offset + 4)
                    /\ pc' = "gamez_materials" /\ err' = err
               ELSE pc' = "failed" /\ err' = "Mech3ParseError"
                    /\ UNCHANGED <<count, array_size>>
    /\ UNCHANGED <<data, slot, materials, call>>
    /\ UNCHANGED notGamezMaterials

\* _read_materials: for i in range(0, mat_count)
gamez_read_material ==
    /\ pc = "gamez_materials"
    /\ slot < count
    /\ \E r \in {gamez_read_material_info(data, offset, prev, slot, count,
                                          call.texture_count)} :
          /\ offset' = r.offset /\ prev' = r.prev
          /\ IF r.ok
             THEN /\ materials' = Append(materials, r.value)
                  /\ slot' = slot + 1 /\ UNCHANGED <<pc, err>>
             ELSE pc' = "failed" /\ err' = r.err /\ UNCHANGED <<materials, slot>>
    /\ UNCHANGED <<data, count, array_size, call>>
    /\ UNCHANGED notGamezMaterials

\* return materials, and _read_materials_zero is called
gamez_read_materials_return ==
    /\ pc = "gamez_materials"
    /\ slot >= count
    /\ pc' = "gamez_materials_zero"
    /\ slot' = count
    /\ UNCHANGED <<data, offset, prev, count, array_size, materials, call, err>>
    /\ UNCHANGED notGamezMaterials

\* _read_materials_zero: for i in range(mat_count, array_size)
gamez_read_material_zero ==
    /\ pc = "gamez_materials_zero"
    /\ slot < array_size
    /\ IF unpack_from_pos(data, offset, GAMEZ_MATERIAL_INFO_size) < 0
       THEN pc' = "failed" /\ err' = "struct.error" /\ UNCHANGED <<offset, prev, slot>>
       ELSE /\ prev' = offset
            /\ offset' = offset + GAMEZ_MATERIAL_INFO_size
            /\ IF gamez_material_zero_valid(data, offset, slot, count, array_size)
               THEN slot' = slot + 1 /\ UNCHANGED <<pc, err>>
               ELSE pc' = "failed" /\ err' = "Mech3ParseError" /\ slot' = slot
    /\ UNCHANGED <<data, count, array_size, materials, call>>
    /\ UNCHANGED notGamezMaterials

\* _read_materials_zero returns, and the loop over materials_and_cycle
\* starts with an empty list
gamez_read_materials_zero_return ==
    /\ pc = "gamez_materials_zero"
    /\ slot >= array_size
    /\ pc' = "gamez_cycles"
    /\ slot' = 0
    /\ UNCHANGED <<data, offset, prev, count, array_size, materials, call, err>>
    /\ UNCHANGED notGamezMaterials

\* for material, cycle_info_ptr in materials_and_cycle
gamez_read_material_cycle ==
    /\ pc = "gamez_cycles"
    /\ slot < Len(materials)
    /\ IF materials[slot + 1][2] = 0
       THEN /\ materials' = [materials EXCEPT ![slot + 1] = materials[slot + 1][1]]
            /\ slot' = slot + 1
            /\ UNCHANGED <<offset, prev, pc, err>>
       ELSE \E r \in {gamez_read_cycle(data, offset, prev, materials[slot + 1][1],
                                       materials[slot + 1][2], call.texture_count)} :
               /\ offset' = r.offset /\ prev' = r.prev
               /\ IF r.ok
                  THEN /\ materials' = [materials EXCEPT ![slot + 1] = r.value]
                       /\ slot' = slot + 1 /\ UNCHANGED <<pc, err>>
                  ELSE pc' = "failed" /\ err' = r.err /\ UNCHANGED <<materials, slot>>
    /\ UNCHANGED <<data, count, array_size, call>>
    /\ UNCHANGED notGamezMaterials

\* return array_size, materials
gamez_read_materials_end ==
    /\ pc = "gamez_cycles"
    /\ slot = Len(materials)
    /\ pc' = "gamez_materials_read"
    /\ UNCHANGED <<data, offset, prev, count, array_size, slot, materials, call, err>>
    /\ UNCHANGED notGamezMaterials

\* Input material tables.
INT16_pack_signed(n) == INT16_pack((n + 65536) % 65536)
GAMEZ_MATERIAL_INFO_pack(unk00, flag, rgb, colour, texture, unk24, unk32, cycle_ptr,
                         index1, index2) ==
    <<unk00, flag>> \o UINT16_pack(rgb) \o colour \o colour \o colour \o UINT32_pack(texture)
        \o Float_0 \o unk24 \o unk24 \o UINT32_pack(unk32) \o UINT32_pack(cycle_ptr)
        \o INT16_pack_signed(index1) \o INT16_pack_signed(index2)
\* The live entry i of n with the colour (0, 0, 0), and the dead entry i
LiveMaterial(i, n) ==
    GAMEZ_MATERIAL_INFO_pack(255, MaterialFlag_Always, 0, Float_0, 0, Float_half, 0, 0,
                             materials_expected1(i, n), materials_expected2(i))
DeadMaterial(flag, index1, index2) ==
    GAMEZ_MATERIAL_INFO_pack(0, flag, 0, Float_0, 0, Float_0, 0, 0, index1, index2)
\* The first j live entries of a table of n
LiveMaterialsOf(j, n) == Concat([k \in 1..j |-> LiveMaterial(k - 1, n)])
LiveMaterials(n) == LiveMaterialsOf(n, n)
DeadMaterials(n, size) ==
    Concat([k \in 1..(size - n) |->
              DeadMaterial(MaterialFlag_Free, materials_zero_expected1(n + k - 1, n),
                           materials_zero_expected2(n + k - 1, size))])
Cycle_pack(unk00, unk12, count1, count2, data_ptr, texture) ==
    UINT32_pack(unk00) \o UINT32_pack(5) \o UINT32_pack(0) \o unk12 \o UINT32_pack(count1)
        \o UINT32_pack(count2) \o UINT32_pack(data_ptr) \o UINT32_pack(texture)
\* The last live entry of an input table: <<unk00, flag, rgb, colour,
\* texture, cycle_ptr>>
LastLiveKinds ==
    {<<255, 16, 0, Float_0, 0, 0>>, <<51, 16, 0, Float_1, 0, 0>>, <<1, 16, 0, Float_0, 0, 0>>,
     <<255, 17, 32767, Float_255, 0, 0>>, <<255, 19, 32767, Float_255, 1, 0>>,
     <<255, 21, 32767, Float_255, 0, 7>>, <<255, 21, 32767, Float_255, 0, 0>>,
     <<255, 20, 0, Float_0, 0, 7>>, <<255, 48, 0, Float_0, 0, 0>>, <<255, 1, 0, Float_0, 0, 0>>,
     <<255, 24, 0, Float_0, 0, 0>>, <<255, 0, 0, Float_0, 0, 0>>}
InputCycles ==
    {<<>>, Cycle_pack(0, Float_2, 1, 1, 9, 0), Cycle_pack(1, Float_16, 1, 1, 9, 1),
     Cycle_pack(2, Float_2, 1, 1, 9, 0), Cycle_pack(0, Float_1, 1, 1, 9, 0),
     Cycle_pack(0, Float_2, 1, 0, 9, 0), Cycle_pack(0, Float_2, 1, 1, 0, 0),
     Cycle_pack(0, Float_nan, 0, 0, 9, 0)}
GamezMaterialsHeader(size, n, index_max, mat_unknown) ==
    UINT32_pack(size) \o UINT32_pack(n) \o UINT32_pack(index_max) \o UINT32_pack(mat_unknown)

InitGamezMaterials ==
    /\ \/ \E n \in 1..MaxLiveMaterials, dead \in 0..MaxDeadMaterials, kind \in LastLiveKinds :
          \E index1 \in {-1, n - 1, n}, index2 \in {-1, n - 2, n - 1}, cycle \in InputCycles,
            cut \in {0, 1} :
            /\ kind[6] = 0 => cycle = <<>>
            /\ (index1 # -1 \/ index2 # materials_expected2(n - 1)) => kind[2] = 16
            /\ cut = 1 => kind[2] = 17
            /\ data = GamezMaterialsHeader(n + dead, n, n, n - 1)
                       \o LiveMaterialsOf(n - 1, n)
                       \o SubSeq(GAMEZ_MATERIAL_INFO_pack(kind[1], kind[2], kind[3], kind[4],
                                                          kind[5], Float_half, 0, kind[6],
                                                          index1, index2),
                                 1, GAMEZ_MATERIAL_INFO_size - cut)
                       \o (IF cut = 1 THEN <<>> ELSE DeadMaterials(n, n + dead) \o cycle)
       \/ \E n \in 1..MaxLiveMaterials, dead \in 1..MaxDeadMaterials,
            flag \in {MaterialFlag_Free, 0, 48}, more \in {0, 1} :
          \E index1 \in {-1, n - 1, n, n + dead - 2, n + dead},
            index2 \in {-1, n + dead - 2, n + dead} :
            data = GamezMaterialsHeader(n + dead, n, n, n - 1)
                    \o LiveMaterials(n)
                    \o SubSeq(DeadMaterials(n, n + dead + more), 1,
                              GAMEZ_MATERIAL_INFO_size * (dead - 1))
                    \o DeadMaterial(flag, index1, index2)
       \/ \E n \in 0..MaxLiveMaterials, size \in 0..(MaxLiveMaterials + MaxDeadMaterials) :
          \E index_max \in {n, n + 1}, mat_unknown \in {IF n = 0 THEN 0 ELSE n - 1, n},
            cut \in {0, 1} :
            data = SubSeq(GamezMaterialsHeader(size, n, index_max, mat_unknown), 1,
                          GAMEZ_MATERIAL_HEADER_size - cut)
                    \o (IF cut = 1 THEN <<>> ELSE LiveMaterials(n) \o DeadMaterials(n, size))
    /\ call = [texture_count |-> 1]
    /\ pc = "gamez_read_materials"
    /\ slot = 0 /\ count = 0 /\ array_size = 0 /\ materials = <<>>
    /\ f = <<>> /\ offset = 0 /\ prev = 0 /\ err = "" /\ root = <<>>
    /\ wrapped_meshes = <<>> /\ meshes = <<>>
    /\ anim_names = <<>> /\ seqdef = <<>> /\ sequences = <<>> /\ anim_def = <<>>
    /\ nodes = <<>> /\ do_stretch = FALSE /\ textures = <<>>
    /\ entries = <<>> /\ scripts = <<>> /\ motion = <<>>
    /\ names = {} /\ renames = <<>>
    /\ filetime = Tick(0, 0) /\ write_time = <<>> /\ filetime_out = Tick(0, 0)

NextGamezMaterials ==
    \/ gamez_read_materials_header
    \/ gamez_read_material
    \/ gamez_read_materials_return
    \/ gamez_read_material_zero
    \/ gamez_read_materials_zero_return
    \/ gamez_read_material_cycle
    \/ gamez_read_materials_end

SpecGamezMaterials == InitGamezMaterials /\ [][NextGamezMaterials]_vars

\* The entry i of the table that was read: its flag and its two links
MaterialEntryFlag(i) == data[GAMEZ_MATERIAL_HEADER_size + GAMEZ_MATERIAL_INFO_size * i + 2]
MaterialEntryIndex1(i) ==
    INT16_at(data, GAMEZ_MATERIAL_HEADER_size + GAMEZ_MATERIAL_INFO_size * i + 40)
MaterialEntryIndex2(i) ==
    INT16_at(data, GAMEZ_MATERIAL_HEADER_size + GAMEZ_MATERIAL_INFO_size * i + 42)

\* C28: read_materials accepts a table only if every live entry i of
\* 0..count-1 has the forward link i+1 (-1 for i = count-1) and the backward
\* link i-1 (-1 for i = 0), and every dead entry j of count..array_size-1
\* has the flag Free and its links the other way round: first j-1 (-1 for
\* j = count), second j+1 (-1 for j = array_size-1).
C28_MaterialLinks ==
    pc = "gamez_materials_read" =>
        /\ \A i \in 0..(count - 1) :
              /\ MaterialEntryIndex1(i) = (IF i = count - 1 THEN -1 ELSE i + 1)
              /\ MaterialEntryIndex2(i) = (IF i = 0 THEN -1 ELSE i - 1)
        /\ \A j \in count..(array_size - 1) :
              /\ MaterialEntryFlag(j) = MaterialFlag_Free
              /\ MaterialEntryIndex1(j) = (IF j = count THEN -1 ELSE j - 1)
              /\ MaterialEntryIndex2(j) = (IF j = array_size - 1 THEN -1 ELSE j + 1)
\* A table of two live and two dead entries is accepted, the last live one
\* with a cycle
C28_Witness ==
    /\ pc = "gamez_materials_read"
    /\ count = 2 /\ array_size = 4
    /\ Len(materials) = 2
    /\ materials[2].cycle # <<>>
    /\ MaterialEntryFlag(3) = MaterialFlag_Free
    /\ MaterialEntryIndex1(3) = 2

(***************************************************************************)
(* Colour tables (parse/colors.py): RGB-565 to RGB-888 and back.           *)
(***************************************************************************)
\* range(0x10000) of LERP888
LERP888_size == 65536
\* The most pixels of one image of the inputs
MaxPixels == 2

RECURSIVE BitOr(_, _)
BitOr(a, b) ==
    IF a = 0 THEN b
    ELSE IF b = 0 THEN a
    ELSE (IF a % 2 = 1 \/ b % 2 = 1 THEN 1 ELSE 0) + 2 * BitOr(a \div 2, b \div 2)

\* calc_lerp5, calc_lerp6: int(value * 31.0 / 255.0 + 0.5) and
\* int(value * 63.0 / 255.0 + 0.5); LERP5 and LERP6 hold them for 0..255
calc_lerp5_truncated(value) == (value * 31) \div 255
calc_lerp5(value) == (value * 62 + 255) \div 510
calc_lerp6(value) == (value * 126 + 255) \div 510

\* rgb888to565: two bytes per three, the low byte first
rgb888to565(colors) ==
    Concat([k \in 1..(Len(colors) \div 3) |->
              LET red == colors[3 * k - 2]
                  green == colors[3 * k - 1]
                  blue == colors[3 * k]
                  bits == calc_lerp6(green)
                  high == BitOr((bits * 32) % 256, calc_lerp5(blue))
                  low == BitOr(calc_lerp5(red) * 8, bits \div 8)
              IN  <<high, low>>])

\* unpack_from(f"<{size}H", data, offset)
unpack_pixels(b, off, size) == [k \in 1..size |-> UINT16_at(b, off + 2 * (k - 1))]

\* _read_texture, palette_count == 0: the pixels become the RGB image
read_pixels ==
    /\ pc = "read_pixels"
    /\ textures' = rgb565to888(unpack_pixels(data, 0, count))
    /\ offset' = offset + count * 2
    /\ pc' = "image_read"
    /\ UNCHANGED <<data, count, f, err>>
    /\ UNCHANGED notColors

\* _write_texture, palette_count == 0: image_data = rgb888to565(img.tobytes())
\* with the assertion on its length
write_pixels ==
    /\ pc = "image_read"
    /\ \E image_data \in {rgb888to565(textures)} :
         IF Len(image_data) # count * 2
         THEN /\ pc' = "failed" /\ err' = "Mech3InternalError" /\ f' = f
         ELSE /\ pc' = "image_written" /\ err' = err /\ f' = f \o image_data
    /\ UNCHANGED <<data, count, offset, textures>>
    /\ UNCHANGED notColors

\* Every 16-bit colour as the first pixel of a run of neighbouring colours
InitColors ==
    /\ \E c \in 0..(LERP888_size - 1), n \in 1..MaxPixels :
         /\ count = n
         /\ data = Concat([k \in 1..n |-> UINT16_pack((c + 257 * (k - 1)) % LERP888_size)])
    /\ pc = "read_pixels" /\ err = ""
    /\ offset = 0 /\ prev = 0
    /\ textures = <<>> /\ f = <<>>
    /\ anim_def = <<>> /\ sequences = <<>> /\ seqdef = <<>>
    /\ anim_names = <<>>
    /\ wrapped_meshes = <<>> /\ meshes = <<>>
    /\ array_size = 0 /\ slot = 0 /\ nodes = <<>> /\ call = <<>> /\ do_stretch = FALSE
    /\ entries = <<>> /\ root = <<>> /\ scripts = <<>> /\ motion = <<>>
    /\ materials = <<>> /\ names = {} /\ renames = <<>>
    /\ filetime = Tick(0, 0) /\ write_time = <<>> /\ filetime_out = Tick(0, 0)

NextColors == read_pixels \/ write_pixels

SpecColors == InitColors /\ [][NextColors]_vars

\* C30: every 16-bit colour c of 0..65535, converted to RGB-888 and back to
\* RGB-565, is c again: re-encoding the decoded pixels gives the stored
\* 16-bit values back.
C30_ColourIdentity ==
    /\ pc = "image_read" =>
          \A k \in 1..count :
              unpack_pixels(rgb888to565(SubSeq(textures, 3 * k - 2, 3 * k)), 0, 1)[1]
                  = UINT16_at(data, 2 * (k - 1))
    /\ pc # "failed"
    /\ pc = "image_written" => f = data
\* The colour 0x8410 (16, 32, 16) becomes (132, 130, 132) and is written back
\* as 0x8410
C30_Witness ==
    /\ pc = "image_written"
    /\ count = 2
    /\ UINT16_at(data, 0) = 33808
    /\ SubSeq(textures, 1, 3) = <<132, 130, 132>>
    /\ UINT16_at(f, 0) = 33808
    /\ UINT16_at(f, 2) = 33808 + 257

(***************************************************************************)
(* The whole program: any one of the families above.                       *)
(***************************************************************************)
Init ==
    \/ InitArchive
    \/ InitFiletime
    \/ InitRenamer
    \/ InitReader
    \/ InitInterp
    \/ InitMotion
    \/ InitMaterials
    \/ InitTextures
    \/ InitNodes

Next ==
    \/ NextArchive
    \/ NextFiletime
    \/ NextRenamer
    \/ NextReader
    \/ NextInterp
    \/ NextMotion
    \/ NextMaterials
    \/ NextTextures
    \/ NextNodes

Spec == Init /\ [][Next]_vars

====
